---- MODULE Spec2Model ----
(***************************************************************************)
(* sphinx-polyversion: the orchestration driver (Driver.run / arun /       *)
(* build_revision / build_root), the Git version provider's discovery     *)
(* (_get_all_refs, Git.predicate, Git.retrieve) and the shipped           *)
(* CommandBuilder, as state machines.                                      *)
(*                                                                         *)
(* Spec          one Driver.run(mock=False): asyncio.run(arun())           *)
(* SpecPredicate Git.predicate applied to bounded inputs                   *)
(* SpecRetrieve  Git.retrieve with its concurrent handle(ref) tasks        *)
(* SpecParse     _parse_ref on one line of the listing, then the filter    *)
(* SpecOrder     the comparison operators, max and min on two GitRefs      *)
(* SpecGroup     refs_by_type on a list or a one-shot iterator             *)
(* SpecJson      Encoder.encode followed by Decoder.decode                 *)
(* SpecCommand   CommandBuilder.build: pre hook, build command, post hook  *)
(* SpecLocal     one Driver.run(mock=True): asyncio.run(build_local())     *)
(* SpecRoot      DefaultDriver.build_root: manifest, static files          *)
(* SpecSelect    DefaultDriver.__init__, init_builder, init_environment    *)
(* SpecAll       async_all over tasks completing in any order              *)
(* SpecPoetry    Poetry.__aenter__ of environments of one project path     *)
(* SpecName      the output directories DefaultDriver.name_for_rev gives   *)
(* SpecScm       SetuptoolsScmDriver.init_environment of concurrent tasks  *)
(***************************************************************************)
EXTENDS Integers, Sequences, FiniteSets, TLC

\* ------------------------------------------------------------------ bounds

\* Number of lines `git for-each-ref` lists at most (length of the listing).
MaxStore == 4

\* ------------------------------------------------------------ revisions

\* GitRefType (enum): the kinds of refs.  "NONE" is the value the test suite
\* passes for type_ (GitRef("test", "", "", None, None)).
TAG == "TAG"
BRANCH == "BRANCH"
GitRefType == {TAG, BRANCH}

\* remote = None
NoRemote == "None"

\* GitRef(name, obj, ref, type_, date, remote): names are character
\* sequences so that a regular expression can be matched against them.
GitRef(name, type_, date, remote) ==
    [name |-> name, type_ |-> type_, date |-> date, remote |-> remote]

\* ----------------------------------------------------- regular expressions

\* A compiled pattern is a sequence of tokens: a literal character, "." (any
\* one character) or ".*" (any string).

RECURSIVE fullmatch(_, _)
\* re.Pattern.fullmatch: the whole string must match the pattern.
fullmatch(p, s) ==
    IF p = <<>> THEN s = <<>>
    ELSE IF Head(p) = ".*"
         THEN fullmatch(Tail(p), s) \/ (s # <<>> /\ fullmatch(p, Tail(s)))
         ELSE /\ s # <<>>
              /\ (Head(p) = "." \/ Head(p) = Head(s))
              /\ fullmatch(Tail(p), Tail(s))

\* re.Pattern.match: some prefix of the string matches the pattern.
prefixmatch(p, s) == \E k \in 0..Len(s) : fullmatch(p, SubSeq(s, 1, k))

\* The regex test with match in place of fullmatch.
regex_test_prefix(p, s) == prefixmatch(p, s)

\* The regex test of Git.predicate: bool(regex.fullmatch(ref.name)).
regex_test(p, s) == fullmatch(p, s)

\* Truthiness of the value a secondary predicate returns (`if not r`).
Truthy(v) == v \in {"True", "1"}

\* --------------------------------------------------------- Git.predicate

\* Git(branch_regex, tag_regex, remote, predicate=...): the provider's
\* configuration.  has_predicate: whether `predicate` was supplied.
GitConfig(branch_regex, tag_regex, remote, has_predicate) ==
    [branch_regex |-> branch_regex, tag_regex |-> tag_regex,
     remote |-> remote, has_predicate |-> has_predicate]

\* The kind-specific regex test (`match`) of Git.predicate.
name_match(g, ref) ==
    IF ref.type_ = BRANCH THEN regex_test(g.branch_regex, ref.name)
    ELSE IF ref.type_ = TAG THEN regex_test(g.tag_regex, ref.name)
    ELSE TRUE

\* Git.predicate(root, ref): "True" / "False", or "raise" when the secondary
\* predicate raises (nothing catches it).  sec is what the secondary
\* predicate returns for this ref.
predicate(g, ref, sec) ==
    IF ~(ref.remote = g.remote /\ name_match(g, ref)) THEN "False"
    ELSE IF g.has_predicate
         THEN (IF sec = "raise" THEN "raise"
               ELSE IF ~Truthy(sec) THEN "False" ELSE "True")
         ELSE "True"

\* Git.retrieve(root) over the refs _get_all_refs yields: the refs for which
\* the predicate returned true, in listing order.  sec[i] is what the
\* secondary predicate returns for the i-th listed ref.
retrieve(g, listing, sec) ==
    LET keep == {i \in 1..Len(listing) : predicate(g, listing[i], sec[i]) = "True"}
        F[i \in 0..Len(listing)] ==
            IF i = 0 THEN <<>>
            ELSE IF i \in keep THEN Append(F[i - 1], listing[i]) ELSE F[i - 1]
    IN F[Len(listing)]

\* Git.name(revision): the name used for the revision's output directory.
name(rev) == rev.name

\* ------------------------------------------------------------- the store

\* What is at the driver's root: a git repository, a directory that is not a
\* repository (git exits with 128 and prints nothing on stdout), or a path
\* that does not exist (create_subprocess_exec raises FileNotFoundError).
RootKinds == {"repo", "notrepo", "missing"}

\* The refs of the repository, in the order `git for-each-ref` lists them.
\* _parse_ref yields local branches and tags.
AllRefs ==
    << GitRef(<<"m", "a", "i", "n">>, BRANCH, 1, NoRemote),
       GitRef(<<"v", "1">>, TAG, 2, NoRemote),
       GitRef(<<"n", "i", "g", "h", "t">>, TAG, 3, NoRemote),
       GitRef(<<"d", "e", "v">>, BRANCH, 4, NoRemote),
       GitRef(<<"v", "2">>, TAG, 5, NoRemote),
       GitRef(<<"d", "o", "c", "s">>, BRANCH, 6, NoRemote) >>

\* The provider of the run: Git(branch_regex=".*", tag_regex="v.*").
DriverGit == GitConfig(<<".*">>, <<"v", ".*">>, NoRemote, FALSE)

\* Exit code and stdout of `git for-each-ref` run with cwd = root.
git_for_each_ref(r, st) ==
    IF r = "repo" THEN [rc |-> 0, out |-> st] ELSE [rc |-> 128, out |-> <<>>]

\* _get_all_refs(repo): the parsed lines of the command's stdout; the exit
\* code is not looked at.
get_all_refs(r, st) == git_for_each_ref(r, st).out

\* ------------------------------------------------------------------ state

VARIABLES
    root,       \* what the driver's root path points at (input)
    store,      \* the refs the repository lists (input)
    git,        \* the Git provider's configuration
    runPc,      \* position of Driver.run: start, gather, done, raised, closed
    runExc,     \* the exception arun raised ("none" if none)
    gitRc,      \* exit code of the listing command (-1: not run)
    targets,    \* Driver.targets
    pc,         \* per task: position of build_revision
    stack,      \* per task: the AsyncExitStack (resources entered, in order)
    workspace,  \* per task: temporary directory: absent, present, removed
    envState,   \* per task: environment: none, entered, enter_failed, exited
    exc,        \* per task: the exception that ended it ("none" if none)
    evlog,      \* per task: the steps performed, in order (history)
    builds,     \* Driver.builds
    finished,   \* tasks in the order they reached a terminal state (history)
    outdirs,    \* names of the subdirectories of output_dir that exist
    manifest,   \* versions.json: written or not, and the revisions it lists
    rootRuns,   \* number of times build_root has run
    pRef,       \* Git.predicate: the ref it is called with
    pSec,       \* Git.predicate: what the secondary predicate returns
    pRes,       \* Git.predicate: its result ("unset" before the call)
    rListing,   \* Git.retrieve: the refs _get_all_refs yields, in order
    rSec,       \* Git.retrieve: per ref, what the secondary predicate returns
    rPc,        \* Git.retrieve: start, gather, returned, raised
    rTask,      \* Git.retrieve: per handle(ref) task: pending, done, raised
    rDone,      \* Git.retrieve: per task, what handle returned (<<>>: None)
    rOrder,     \* Git.retrieve: the tasks in the order they completed (history)
    rResult,    \* Git.retrieve: the tuple it returned
    lnRef,      \* _parse_ref: the refname of the line, split at "/"
    lnDate,     \* _parse_ref: the creator date of the line
    parsePc,    \* _parse_ref, then Git.predicate: start, parsed, filtered
    parsed,     \* _parse_ref: what it returned (<<>>: None)
    parseSel,   \* whether the provider selects the parsed ref ("unset" before)
    cmpA,       \* comparison: the left revision
    cmpB,       \* comparison: the right revision
    cmpOp,      \* comparison: the operator or builtin applied ("none" before)
    cmpRes,     \* comparison: True, False or TypeError ("unset" before)
    cmpSel,     \* max / min: the revision selected (<<>> if none)
    gIn,        \* refs_by_type: the revisions passed, in order
    gOneShot,   \* refs_by_type: whether they are passed as a one-shot iterator
    gPc,        \* refs_by_type: start, done
    gBranches,  \* refs_by_type: the first list returned
    gTags,      \* refs_by_type: the second list returned
    encHooks,   \* Encoder.hooks: the hooks registered with the encoder
    decTypes,   \* Decoder.type_dict: identifiers of the registered classes
    decHooks,   \* Decoder.type_hooks: identifiers of the registered hooks
    jsonX,      \* the value passed to Encoder.encode
    jsonPc,     \* start, encoded, encode_raised, decoded, decode_raised
    wire,       \* the JSON document encode produced
    jsonY,      \* the value Decoder.decode returned
    bPreCmd,    \* CommandBuilder.pre_cmd is set
    bPostCmd,   \* CommandBuilder.post_cmd is set
    bRc,        \* the exit code each of the commands ends with (input)
    bPc,        \* CommandBuilder.build: pre, cmd, post, returned, raised
    bRan,       \* the commands environment.run has run, in order (history)
    bCause,     \* the CalledProcessError the BuildError is raised from
    mock,       \* Driver.mock: <<>> if not set, else <<the mock data>>
    stDir,      \* DefaultDriver.static_dir: unset, missing or present
    stTree,     \* the entries under static_dir: relative path and kind
    tplDir,     \* DefaultDriver.template_dir is a directory
    outTree,    \* the entries under output_dir: relative path and kind
    rootPc,     \* build_root: start, copy, templates, done, raised
    rootTodo,   \* build_root: the entries rglob has still to yield
    rootExc,    \* build_root: the exception it raised ("none" if none)
    rootLog,    \* build_root: manifest, copy and render steps, in order (history)
    dBuilder,   \* DefaultDriver(builder=...): one builder, a dict or another Mapping
    dEnv,       \* DefaultDriver(env=...): one factory, a dict or another Mapping
    dSelector,  \* DefaultDriver(selector=...): <<>> if none, else <<the selector>>
    dRev,       \* the revision init_builder / init_environment are called for
    dPc,        \* new, constructed, builder, env, ctor_raised, raised
    dExc,       \* the exception raised ("none" if none)
    dUsed,      \* the builder and the environment factory chosen for dRev
    aws,        \* async_all(awaitables): what each awaitable does when it completes
    taskState,  \* of each task: pending, cancelling, done, cancelled
    tasks,      \* async_all's `tasks`: the tasks not yet reported done by asyncio.wait
    done,       \* async_all's `done`: the finished tasks still to be looked at
    seen,       \* the tasks whose result async_all has read
    allPc,      \* start, wait, iterate, cancelwait, returned, raised
    allRet,     \* the value async_all returned ("none" before)
    pFs,        \* the directories .venv, .venv-<i> that exist in the project path
    pPc,        \* of each Poetry environment: new, install, locate, entered, raised
    pEnvPath,   \* of each environment: the POETRY_VIRTUALENVS_PATH it chose
    pVenv,      \* of each environment: self.venv
    pRan,       \* of each environment: sys.prefix of its last python command
    dataFactory, \* whether DefaultDriver was given a data_factory
    bundle,     \* of each task that got that far: the data handed to the builder
    nmNamer,    \* DefaultDriver(namer=...): <<>> if none, else <<the namer>>
    nmPc,       \* start, named
    nmTargets,  \* Driver.targets after Driver.init
    nmDirs,     \* of each task that got that far: the directory handed to the builder
    scmGiven,   \* whether the environment factory was created with an `env` mapping
    scmUser,    \* the content of that mapping (a dict object of the user)
    scmOwn,     \* of each task: the content of the dict its environment created itself
    scmEnvOf,   \* of each task: which dict object its environment's `env` is
    scmPc,      \* of each task: new, created, ready, built
    scmSeen     \* of each task: the pretend version its build command got

driverVars == <<root, store, runPc, runExc, gitRc, targets, pc, stack, workspace,
                envState, exc, evlog, builds, finished, outdirs, manifest, rootRuns>>
predVars == <<pRef, pSec, pRes>>
\* The variables of the specifications of the single operations.
retrVars == <<rListing, rSec, rPc, rTask, rDone, rOrder, rResult>>
parseVars == <<lnRef, lnDate, parsePc, parsed, parseSel>>
ordVars == <<cmpA, cmpB, cmpOp, cmpRes, cmpSel>>
groupVars == <<gIn, gOneShot, gPc, gBranches, gTags>>
jsonVars == <<encHooks, decTypes, decHooks, jsonX, jsonPc, wire, jsonY>>
cmdVars == <<bPreCmd, bPostCmd, bRc, bPc, bRan, bCause>>
localVars == <<mock>>
rootVars == <<stDir, stTree, tplDir, outTree, rootPc, rootTodo, rootExc, rootLog>>
selVars == <<dBuilder, dEnv, dSelector, dRev, dPc, dExc, dUsed>>
allVars == <<aws, taskState, tasks, done, seen, allPc, allRet>>
poetryVars == <<pFs, pPc, pEnvPath, pVenv, pRan>>
dataVars == <<dataFactory, bundle>>
nameVars == <<nmNamer, nmPc, nmTargets, nmDirs>>
scmVars == <<scmGiven, scmUser, scmOwn, scmEnvOf, scmPc, scmSeen>>
auxVars == <<retrVars, parseVars, ordVars, groupVars, jsonVars, cmdVars, localVars, rootVars, selVars, allVars, poetryVars, dataVars, nameVars, scmVars>>
\* What each of these specifications leaves alone.
restRetr == <<parseVars, ordVars, groupVars, jsonVars, cmdVars, localVars, rootVars, selVars, allVars, poetryVars, dataVars, nameVars, scmVars>>
restParse == <<retrVars, ordVars, groupVars, jsonVars, cmdVars, localVars, rootVars, selVars, allVars, poetryVars, dataVars, nameVars, scmVars>>
restOrd == <<retrVars, parseVars, groupVars, jsonVars, cmdVars, localVars, rootVars, selVars, allVars, poetryVars, dataVars, nameVars, scmVars>>
restGroup == <<retrVars, parseVars, ordVars, jsonVars, cmdVars, localVars, rootVars, selVars, allVars, poetryVars, dataVars, nameVars, scmVars>>
restJson == <<retrVars, parseVars, ordVars, groupVars, cmdVars, localVars, rootVars, selVars, allVars, poetryVars, dataVars, nameVars, scmVars>>
restCmd == <<retrVars, parseVars, ordVars, groupVars, jsonVars, localVars, rootVars, selVars, allVars, poetryVars, dataVars, nameVars, scmVars>>
restLocal == <<retrVars, parseVars, ordVars, groupVars, jsonVars, cmdVars, rootVars, selVars, allVars, poetryVars, dataVars, nameVars, scmVars>>
restRoot == <<retrVars, parseVars, ordVars, groupVars, jsonVars, cmdVars, localVars, selVars, allVars, poetryVars, dataVars, nameVars, scmVars>>
restSel == <<retrVars, parseVars, ordVars, groupVars, jsonVars, cmdVars, localVars, rootVars, allVars, poetryVars, dataVars, nameVars, scmVars>>
restAll == <<retrVars, parseVars, ordVars, groupVars, jsonVars, cmdVars, localVars, rootVars, selVars, poetryVars, dataVars, nameVars, scmVars>>
restPoetry == <<retrVars, parseVars, ordVars, groupVars, jsonVars, cmdVars, localVars, rootVars, selVars, allVars, dataVars, nameVars, scmVars>>
restData == <<retrVars, parseVars, ordVars, groupVars, jsonVars, cmdVars, localVars, rootVars, selVars, allVars, poetryVars, nameVars, scmVars>>
restName == <<retrVars, parseVars, ordVars, groupVars, jsonVars, cmdVars, localVars, rootVars, selVars, allVars, poetryVars, dataVars, scmVars>>
restScm == <<retrVars, parseVars, ordVars, groupVars, jsonVars, cmdVars, localVars, rootVars, selVars, allVars, poetryVars, dataVars, nameVars>>
vars == <<git, driverVars, predVars, auxVars>>

Tasks == 1..Len(targets)

Terminal == {"succeeded", "failed", "raised", "cancelled"}

\* State of a driver that has been constructed and not run (Driver.__init__).
DriverIdle ==
    /\ runPc = "start"
    /\ runExc = "none"
    /\ gitRc = -1
    /\ targets = <<>>
    /\ pc = <<>>
    /\ stack = <<>>
    /\ workspace = <<>>
    /\ envState = <<>>
    /\ exc = <<>>
    /\ evlog = <<>>
    /\ builds = <<>>
    /\ finished = <<>>
    /\ outdirs = {}
    /\ manifest = [written |-> FALSE, revs |-> <<>>]
    /\ rootRuns = 0

PredIdle ==
    /\ pRef = AllRefs[1]
    /\ pSec = "None"
    /\ pRes = "unset"

\* Git.retrieve has not been called.
RetrIdle ==
    /\ rListing = <<>>
    /\ rSec = <<>>
    /\ rPc = "start"
    /\ rTask = <<>>
    /\ rDone = <<>>
    /\ rOrder = <<>>
    /\ rResult = <<>>

\* _parse_ref has not been called.
ParseIdle ==
    /\ lnRef = <<>>
    /\ lnDate = 0
    /\ parsePc = "start"
    /\ parsed = <<>>
    /\ parseSel = "unset"

\* No revisions have been compared.
OrdIdle ==
    /\ cmpA = AllRefs[1]
    /\ cmpB = AllRefs[1]
    /\ cmpOp = "none"
    /\ cmpRes = "unset"
    /\ cmpSel = <<>>

\* refs_by_type has not been called.
GroupIdle ==
    /\ gIn = <<>>
    /\ gOneShot = FALSE
    /\ gPc = "start"
    /\ gBranches = <<>>
    /\ gTags = <<>>

\* Nothing has been encoded or decoded.
JsonIdle ==
    /\ encHooks = {}
    /\ decTypes = {}
    /\ decHooks = {}
    /\ jsonX = [k |-> "none", v |-> "None"]
    /\ jsonPc = "start"
    /\ wire = [k |-> "null", v |-> "null"]
    /\ jsonY = [k |-> "none", v |-> "None"]

\* CommandBuilder.build has not been called.
CmdIdle ==
    /\ bPreCmd = FALSE
    /\ bPostCmd = FALSE
    /\ bRc = [c \in {"pre_cmd", "cmd", "post_cmd"} |-> 0]
    /\ bPc = "pre"
    /\ bRan = <<>>
    /\ bCause = <<>>

\* The driver was constructed without mock data.
LocalIdle == mock = <<>>

\* build_root of the DefaultDriver has not been called.
RootIdle ==
    /\ stDir = "unset"
    /\ stTree = {}
    /\ tplDir = FALSE
    /\ outTree = {}
    /\ rootPc = "start"
    /\ rootTodo = {}
    /\ rootExc = "none"
    /\ rootLog = <<>>

\* No DefaultDriver is being constructed.
SelIdle ==
    /\ dBuilder = [kind |-> "value", at |-> <<>>]
    /\ dEnv = [kind |-> "value", at |-> <<>>]
    /\ dSelector = <<>>
    /\ dRev = AllRefs[1]
    /\ dPc = "new"
    /\ dExc = "none"
    /\ dUsed = [builder |-> "unset", env |-> "unset"]

\* async_all is not being called.
AllIdle ==
    /\ aws = <<>>
    /\ taskState = <<>>
    /\ tasks = {}
    /\ done = {}
    /\ seen = {}
    /\ allPc = "start"
    /\ allRet = "none"

\* No Poetry environment exists.
PoetryIdle ==
    /\ pFs = {}
    /\ pPc = <<>>
    /\ pEnvPath = <<>>
    /\ pVenv = <<>>
    /\ pRan = <<>>

\* No data factory is given and no metadata has been bundled.
DataIdle ==
    /\ dataFactory = FALSE
    /\ bundle = <<>>

\* No output directory is being determined.
NameIdle ==
    /\ nmNamer = <<>>
    /\ nmPc = "start"
    /\ nmTargets = <<>>
    /\ nmDirs = <<>>

\* No SetuptoolsScmDriver is running.
ScmIdle ==
    /\ scmGiven = FALSE
    /\ scmUser = {}
    /\ scmOwn = <<>>
    /\ scmEnvOf = <<>>
    /\ scmPc = <<>>
    /\ scmSeen = <<>>

\* No single operation is being exercised.
AuxIdle == RetrIdle /\ ParseIdle /\ OrdIdle /\ GroupIdle /\ JsonIdle /\ CmdIdle /\ LocalIdle /\ RootIdle /\ SelIdle /\ AllIdle /\ PoetryIdle /\ DataIdle /\ NameIdle /\ ScmIdle

Init ==
    /\ root \in RootKinds
    /\ \E n \in 0..MaxStore : store = SubSeq(AllRefs, 1, n)
    /\ (root # "repo" => store = <<>>)
    /\ git = DriverGit
    /\ DriverIdle
    /\ PredIdle
    /\ RetrIdle
    /\ ParseIdle
    /\ OrdIdle
    /\ GroupIdle
    /\ JsonIdle
    /\ CmdIdle
    /\ LocalIdle
    /\ RootIdle
    /\ SelIdle
    /\ AllIdle
    /\ PoetryIdle
    /\ NameIdle
    /\ ScmIdle
    /\ dataFactory \in BOOLEAN
    /\ bundle = <<>>

\* ------------------------------------------------------- build_revision

InSeq(x, s) == \E i \in 1..Len(s) : s[i] = x

\* Position of the first occurrence of x in s (0 if there is none).
IndexOf(x, s) ==
    IF InSeq(x, s) THEN CHOOSE i \in 1..Len(s) : s[i] = x /\ \A j \in 1..(i - 1) : s[j] # x
    ELSE 0

\* Number of occurrences of x in s.
Count(x, s) == Cardinality({i \in 1..Len(s) : s[i] = x})

\* What leaving a resource of the exit stack does: the environment's
\* __aexit__, or the removal of the TemporaryDirectory of tmp_dir.
exit_event(res) == IF res = "env" THEN "env_exit" ELSE "tmp_destroy"

\* An exit stack that leaves the resources in the order they were entered.
close_stack_fifo(st) == [i \in 1..Len(st) |-> exit_event(st[i])]

\* An exit stack on which the temporary directory was never pushed.
close_stack_no_tmp(st) ==
    LET envs == SelectSeq(st, LAMBDA r : r = "env")
    IN [i \in 1..Len(envs) |-> exit_event(envs[Len(envs) + 1 - i])]

\* AsyncExitStack.__aexit__: the resources entered are left in reverse order
\* of entering, whatever ends the `async with` block.
close_stack(st) == [i \in 1..Len(st) |-> exit_event(st[Len(st) + 1 - i])]

\* A hook that replaces the list instead of appending to it.
build_succeeded_replace(b, rev) == <<rev>>

\* Driver.build_succeeded(rev, data): append the revision to Driver.builds.
build_succeeded(b, rev) == Append(b, rev)

\* Where build_revision ends for the exception e that left the `async with`
\* block ("none": it was left normally): `except BuildError` calls
\* build_failed, `else` calls build_succeeded, anything else propagates out
\* of the coroutine.
task_end(e) ==
    IF e = "none" THEN "succeeded"
    ELSE IF e = "BuildError" THEN "failed"
    ELSE IF e = "CancelledError" THEN "cancelled"
    ELSE "raised"

\* The `async with AsyncExitStack()` block of task t is left with exception
\* e, after the steps lg, the environment being in state envNow: the stack is
\* closed and the hook for the outcome is called.
Finish(t, lg, e, envNow) ==
    LET closing == close_stack(stack[t]) IN
    /\ evlog' = [evlog EXCEPT ![t] = lg \o closing]
    /\ stack' = [stack EXCEPT ![t] = <<>>]
    /\ workspace' = [workspace EXCEPT
                       ![t] = IF InSeq("tmp_destroy", closing) THEN "removed" ELSE @]
    /\ envState' = [envState EXCEPT
                      ![t] = IF InSeq("env_exit", closing) THEN "exited" ELSE envNow]
    /\ exc' = [exc EXCEPT ![t] = e]
    /\ pc' = [pc EXCEPT ![t] = task_end(e)]
    /\ builds' = IF task_end(e) = "succeeded"
                 THEN build_succeeded(builds, targets[t]) ELSE builds
    /\ finished' = Append(finished, t)

\* A task that goes straight on to the build, whatever step it has done.
Proceed_to_build(t, lg, p) ==
    /\ evlog' = [evlog EXCEPT ![t] = lg]
    /\ pc' = [pc EXCEPT ![t] = "data"]
    /\ UNCHANGED <<exc, builds, finished>>

\* Task t goes on to position p after the steps lg.
Proceed(t, lg, p) ==
    /\ evlog' = [evlog EXCEPT ![t] = lg]
    /\ pc' = [pc EXCEPT ![t] = p]
    /\ UNCHANGED <<exc, builds, finished>>

\* Driver.init and the launch of the tasks by asyncio.gather: the refs are
\* listed and filtered; one build_revision task per target is created.
DriverInit ==
    /\ runPc = "start"
    /\ IF root = "missing"
       THEN /\ runPc' = "raised"
            /\ runExc' = "FileNotFoundError"
            /\ UNCHANGED <<gitRc, targets, pc, stack, workspace, envState, exc, evlog>>
       ELSE LET listing == get_all_refs(root, store)
                tg == retrieve(git, listing, [i \in 1..Len(listing) |-> "None"])
            IN /\ gitRc' = git_for_each_ref(root, store).rc
               /\ targets' = tg
               /\ pc' = [t \in 1..Len(tg) |-> "pending"]
               /\ stack' = [t \in 1..Len(tg) |-> <<>>]
               /\ workspace' = [t \in 1..Len(tg) |-> "absent"]
               /\ envState' = [t \in 1..Len(tg) |-> "none"]
               /\ exc' = [t \in 1..Len(tg) |-> "none"]
               /\ evlog' = [t \in 1..Len(tg) |-> <<>>]
               /\ runPc' = "gather"
               /\ UNCHANGED runExc
    /\ UNCHANGED <<root, store, git, builds, finished, outdirs, manifest, rootRuns, predVars, auxVars>>

\* build_revision up to the checkout: init_builder, then the temporary
\* directory of tmp_dir is created and pushed on the exit stack.
StartTask(t) ==
    /\ runPc = "gather"
    /\ pc[t] = "pending"
    /\ workspace' = [workspace EXCEPT ![t] = "present"]
    /\ stack' = [stack EXCEPT ![t] = Append(@, "tmp")]
    /\ Proceed(t, Append(evlog[t], "tmp_create"), "tmp")
    /\ UNCHANGED <<root, store, git, runPc, runExc, gitRc, targets, envState,
                   outdirs, manifest, rootRuns, predVars, auxVars>>

\* vcs.checkout(root, path, rev): Git.checkout raises CalledProcessError when
\* a git command exits nonzero.
Checkout(t) ==
    /\ runPc = "gather"
    /\ pc[t] = "tmp"
    /\ \E o \in {"ok", "CalledProcessError"} :
         LET lg == Append(evlog[t], "checkout") IN
         IF o = "ok"
         THEN Proceed(t, lg, "copied") /\ UNCHANGED <<stack, workspace, envState>>
         ELSE Finish(t, lg, o, envState[t])
    /\ UNCHANGED <<root, store, git, runPc, runExc, gitRc, targets,
                   outdirs, manifest, rootRuns, predVars, auxVars>>

\* stack.enter_async_context(await init_environment(path, rev)): __aenter__
\* returns (the environment is pushed on the exit stack) or raises (nothing
\* is pushed): BuildError when the installation exits nonzero,
\* FileNotFoundError from activate.
EnterEnv(t) ==
    /\ runPc = "gather"
    /\ pc[t] = "copied"
    /\ \E o \in {"ok", "BuildError", "FileNotFoundError"} :
         IF o = "ok"
         THEN /\ stack' = [stack EXCEPT ![t] = Append(@, "env")]
              /\ envState' = [envState EXCEPT ![t] = "entered"]
              /\ Proceed(t, Append(evlog[t], "env_enter"), "entered")
              /\ UNCHANGED workspace
         ELSE Finish(t, Append(evlog[t], "env_enter_raised"), o, "enter_failed")
    /\ UNCHANGED <<root, store, git, runPc, runExc, gitRc, targets,
                   outdirs, manifest, rootRuns, predVars, auxVars>>

\* A bundle that lists the revisions built so far.
init_data_builds(self, rev) ==
    [factory |-> "default", revisions |-> self.builds, current |-> rev]

\* DefaultDriver.init_data without a data factory:
\* {"revisions": tuple(self.targets), "current": rev}
init_data(self, rev) ==
    [factory |-> "default", revisions |-> self.targets, current |-> rev]

\* What a data factory of the user returns for rev.
user_data(rev) == [factory |-> "user", revisions |-> <<>>, current |-> rev]

\* init_data(rev, env): the default bundle, or the user's data factory, which
\* may raise.
InitData(t) ==
    /\ runPc = "gather"
    /\ pc[t] = "entered"
    /\ LET lg == Append(evlog[t], "init_data")
           self == [targets |-> targets, builds |-> builds]
       IN IF ~dataFactory
          THEN /\ Proceed(t, lg, "data")
               /\ bundle' = (t :> init_data(self, targets[t])) @@ bundle
               /\ UNCHANGED <<stack, workspace, envState>>
          ELSE \E o \in {"ok", "Exception"} :
                 IF o = "ok"
                 THEN /\ Proceed(t, lg, "data")
                      /\ bundle' = (t :> user_data(targets[t])) @@ bundle
                      /\ UNCHANGED <<stack, workspace, envState>>
                 ELSE Finish(t, lg, o, envState[t]) /\ bundle' = bundle
    /\ UNCHANGED <<root, store, git, runPc, runExc, gitRc, targets,
                   outdirs, manifest, rootRuns, predVars, restData, dataFactory>>

\* What CommandBuilder.build does for the exit code rc of the build command
\* (-1: environment.run raised FileNotFoundError): the exception it raises.
command_builder_result(rc) ==
    IF rc = -1 THEN "FileNotFoundError"
    ELSE IF rc # 0 THEN "BuildError" ELSE "none"

\* builder.build(env, output_dir / name_for_rev(rev), data) with the
\* CommandBuilder: the output directory is created, then the command is run;
\* after it the `async with` block is left and the hook is called.
Build(t) ==
    /\ runPc = "gather"
    /\ pc[t] = "data"
    /\ outdirs' = outdirs \cup {name(targets[t])}
    /\ \E rc \in {0, 1, -1} :
         Finish(t, Append(evlog[t], "build"), command_builder_result(rc), envState[t])
    /\ UNCHANGED <<root, store, git, runPc, runExc, gitRc, targets,
                   manifest, rootRuns, predVars, auxVars>>

\* ---------------------------------------------------- Driver.arun / run

\* asyncio.gather without return_exceptions: the first exception a task
\* raised is raised from the await in arun; build_root is not reached.
GatherRaise ==
    /\ runPc = "gather"
    /\ \E t \in Tasks : pc[t] = "raised"
    /\ LET first == CHOOSE i \in 1..Len(finished) :
                       /\ pc[finished[i]] = "raised"
                       /\ \A j \in 1..(i - 1) : pc[finished[j]] # "raised"
       IN runExc' = exc[finished[first]]
    /\ runPc' = "raised"
    /\ UNCHANGED <<root, store, git, gitRc, targets, pc, stack, workspace, envState,
                   exc, evlog, builds, finished, outdirs, manifest, rootRuns, predVars, auxVars>>

\* asyncio.run after arun has raised: every task that is not done is
\* cancelled; CancelledError is thrown into it where it waits, its exit stack
\* is closed, and `except BuildError` does not catch it.
CancelTask(t) ==
    /\ runPc = "raised"
    /\ pc[t] \notin Terminal
    /\ Finish(t, evlog[t], "CancelledError", envState[t])
    /\ UNCHANGED <<root, store, git, runPc, runExc, gitRc, targets,
                   outdirs, manifest, rootRuns, predVars, auxVars>>

\* DefaultDriver.build_root, reached when gather has returned: versions.json
\* is written with the encoded Driver.builds.
BuildRoot ==
    /\ runPc = "gather"
    /\ \A t \in Tasks : pc[t] \in {"succeeded", "failed"}
    /\ manifest' = [written |-> TRUE, revs |-> builds]
    /\ rootRuns' = rootRuns + 1
    /\ runPc' = "done"
    /\ UNCHANGED <<root, store, git, runExc, gitRc, targets, pc, stack, workspace,
                   envState, exc, evlog, builds, finished, outdirs, predVars, auxVars>>

\* asyncio.run re-raises the exception of arun once the cancelled tasks have
\* ended: Driver.run raises.
Close ==
    /\ runPc = "raised"
    /\ \A t \in Tasks : pc[t] \in Terminal
    /\ runPc' = "closed"
    /\ UNCHANGED <<root, store, git, runExc, gitRc, targets, pc, stack, workspace,
                   envState, exc, evlog, builds, finished, outdirs, manifest,
                   rootRuns, predVars, auxVars>>

Next ==
    \/ DriverInit
    \/ \E t \in Tasks : StartTask(t)
    \/ \E t \in Tasks : Checkout(t)
    \/ \E t \in Tasks : EnterEnv(t)
    \/ \E t \in Tasks : InitData(t)
    \/ \E t \in Tasks : Build(t)
    \/ \E t \in Tasks : CancelTask(t)
    \/ GatherRaise
    \/ BuildRoot
    \/ Close

Spec == Init /\ [][Next]_vars

\* ------------------------------------------ Git.predicate on bounded inputs

Names == {<<"v", "1">>, <<"v", "1", "x">>, <<"m">>}
Remotes == {NoRemote, "origin"}
BranchRegexes == {<<"m">>, <<".*">>}
TagRegexes == {<<"v", ".">>, <<"v", ".*">>}
\* Values a secondary predicate returns ("raise": it raises instead).
SecResults == {"True", "False", "None", "0", "1", "raise"}

InitPredicate ==
    /\ root = "repo"
    /\ store = <<>>
    /\ DriverIdle
    /\ \E b \in BranchRegexes, tr \in TagRegexes, r \in Remotes, h \in BOOLEAN :
         git = GitConfig(b, tr, r, h)
    /\ \E n \in Names, ty \in GitRefType \cup {"NONE"}, r \in Remotes :
         pRef = GitRef(n, ty, 1, r)
    /\ pSec \in SecResults
    /\ (~git.has_predicate => pSec = "None")
    /\ pRes = "unset"
    /\ AuxIdle

\* await Git.predicate(root, ref)
CallPredicate ==
    /\ pRes = "unset"
    /\ pRes' = predicate(git, pRef, pSec)
    /\ UNCHANGED <<git, driverVars, pRef, pSec, auxVars>>

NextPredicate == CallPredicate

SpecPredicate == InitPredicate /\ [][NextPredicate]_vars

\* ----------------------------------------------- Git.retrieve, concurrent

\* Number of refs the listing holds at most in the retrieve specification.
MaxListing == 3

\* handle(ref) of Git.retrieve: the ref when the predicate holds, None
\* (<<>>) otherwise; "raise" when the predicate raises.
handle(g, ref, sec) ==
    LET r == predicate(g, ref, sec)
    IN IF r = "raise" THEN [st |-> "raised", val |-> <<>>]
       ELSE IF r = "True" THEN [st |-> "done", val |-> <<ref>>]
       ELSE [st |-> "done", val |-> <<>>]

\* A gather that hands the results back in the order the tasks completed.
gather_completion_order(results, order) ==
    [k \in 1..Len(order) |-> results[order[k]]]

\* asyncio.gather(*tasks): the results in the order of the awaitables,
\* whatever the order the tasks completed in.
gather(results, order) == [i \in 1..Len(results) |-> results[i]]

\* tuple(filter(None, results)): the results that are not None.
filter_none(results) ==
    LET F[i \in 0..Len(results)] ==
            IF i = 0 THEN <<>>
            ELSE IF results[i] = <<>> THEN F[i - 1]
                 ELSE Append(F[i - 1], results[i][1])
    IN F[Len(results)]

RetrTasks == 1..Len(rTask)

InitRetrieve ==
    /\ root = "repo"
    /\ store = <<>>
    /\ DriverIdle
    /\ PredIdle
    /\ ParseIdle
    /\ OrdIdle
    /\ GroupIdle
    /\ JsonIdle
    /\ CmdIdle
    /\ LocalIdle
    /\ RootIdle
    /\ SelIdle
    /\ AllIdle
    /\ PoetryIdle
    /\ DataIdle
    /\ NameIdle
    /\ ScmIdle
    /\ \E h \in BOOLEAN : git = GitConfig(<<".*">>, <<"v", ".*">>, NoRemote, h)
    /\ \E n \in 0..MaxListing : rListing = SubSeq(AllRefs, 1, n)
    /\ rSec \in [1..Len(rListing) -> SecResults]
    /\ (~git.has_predicate => \A i \in 1..Len(rListing) : rSec[i] = "None")
    /\ rPc = "start"
    /\ rTask = <<>>
    /\ rDone = <<>>
    /\ rOrder = <<>>
    /\ rResult = <<>>

\* Git.retrieve up to the await of gather: one handle(ref) per listed ref.
RetrieveStart ==
    /\ rPc = "start"
    /\ rPc' = "gather"
    /\ rTask' = [i \in 1..Len(rListing) |-> "pending"]
    /\ rDone' = [i \in 1..Len(rListing) |-> <<>>]
    /\ UNCHANGED <<git, driverVars, predVars, rListing, rSec, rOrder, rResult,
                   restRetr>>

\* One handle(ref) task runs to its end; the tasks complete in any order.
HandleDone(i) ==
    /\ rPc = "gather"
    /\ rTask[i] = "pending"
    /\ LET h == handle(git, rListing[i], rSec[i])
       IN /\ rTask' = [rTask EXCEPT ![i] = h.st]
          /\ rDone' = [rDone EXCEPT ![i] = h.val]
    /\ rOrder' = Append(rOrder, i)
    /\ UNCHANGED <<git, driverVars, predVars, rListing, rSec, rPc, rResult,
                   restRetr>>

\* gather re-raises the exception of a task in retrieve, which has no handler.
RetrieveRaise ==
    /\ rPc = "gather"
    /\ \E i \in RetrTasks : rTask[i] = "raised"
    /\ rPc' = "raised"
    /\ UNCHANGED <<git, driverVars, predVars, rListing, rSec, rTask, rDone, rOrder,
                   rResult, restRetr>>

\* All tasks are done: retrieve returns the filtered results of gather.
RetrieveReturn ==
    /\ rPc = "gather"
    /\ \A i \in RetrTasks : rTask[i] = "done"
    /\ rResult' = filter_none(gather(rDone, rOrder))
    /\ rPc' = "returned"
    /\ UNCHANGED <<git, driverVars, predVars, rListing, rSec, rTask, rDone, rOrder,
                   restRetr>>

NextRetrieve ==
    \/ RetrieveStart
    \/ \E i \in RetrTasks : HandleDone(i)
    \/ RetrieveRaise
    \/ RetrieveReturn

SpecRetrieve == InitRetrieve /\ [][NextRetrieve]_vars

\* ------------------------------------------------------------ _parse_ref

\* Refnames `git for-each-ref` prints, split at "/".
RefNames ==
    { <<"refs", "heads", "main">>,
      <<"refs", "heads", "feature", "x">>,
      <<"refs", "tags", "v1">>,
      <<"refs", "remotes", "origin", "main">>,
      <<"refs", "remotes", "origin", "feature", "x">>,
      <<"refs", "remotes", "upstream", "main">>,
      <<"refs", "notes", "commits">>,
      <<"refs", "stash">> }

\* Creator dates of the lines.
LineDates == {1, 2}

\* The remotes a provider is configured with.
ParseRemotes == {NoRemote, "origin", "upstream"}

\* pattern_ref.fullmatch(ref) for
\*   refs/(?P<type>\w+|remotes/(?P<remote>[^/]+))/(?P<name>\S+)
\* The alternatives of the type group are tried in order: \w+ takes one
\* path segment (also the segment "remotes") and the name takes the rest;
\* the second alternative is tried only if no match exists with the first.
\* A group that did not take part in the match is None.
pattern_ref_fullmatch(ref) ==
    IF Len(ref) >= 3 /\ ref[1] = "refs"
    THEN [ok |-> TRUE, type |-> ref[2], remote |-> NoRemote,
          name |-> SubSeq(ref, 3, Len(ref))]
    ELSE IF Len(ref) >= 4 /\ ref[1] = "refs" /\ ref[2] = "remotes"
    THEN [ok |-> TRUE, type |-> "remotes/", remote |-> ref[3],
          name |-> SubSeq(ref, 4, Len(ref))]
    ELSE [ok |-> FALSE, type |-> "", remote |-> NoRemote, name |-> <<>>]

\* _parse_ref(line): the GitRef of the line (<<ref>>), or None (<<>>) for a
\* refname that does not match or whose type is neither heads nor tags nor
\* a remote.
parse_ref(ref, date) ==
    LET match == pattern_ref_fullmatch(ref)
    IN IF ~match.ok THEN <<>>
       ELSE IF match.type = "heads"
            THEN <<GitRef(match.name, BRANCH, date, NoRemote)>>
       ELSE IF match.type = "tags"
            THEN <<GitRef(match.name, TAG, date, NoRemote)>>
       ELSE IF match.remote # NoRemote
            THEN <<GitRef(match.name, BRANCH, date, match.remote)>>
       ELSE <<>>

InitParse ==
    /\ root = "repo"
    /\ store = <<>>
    /\ DriverIdle
    /\ PredIdle
    /\ RetrIdle
    /\ OrdIdle
    /\ GroupIdle
    /\ JsonIdle
    /\ CmdIdle
    /\ LocalIdle
    /\ RootIdle
    /\ SelIdle
    /\ AllIdle
    /\ PoetryIdle
    /\ DataIdle
    /\ NameIdle
    /\ ScmIdle
    /\ \E r \in ParseRemotes : git = GitConfig(<<".*">>, <<".*">>, r, FALSE)
    /\ lnRef \in RefNames
    /\ lnDate \in LineDates
    /\ parsePc = "start"
    /\ parsed = <<>>
    /\ parseSel = "unset"

\* _get_all_refs parses one line of the listing.
ParseRef ==
    /\ parsePc = "start"
    /\ parsed' = parse_ref(lnRef, lnDate)
    /\ parsePc' = "parsed"
    /\ UNCHANGED <<git, driverVars, predVars, restParse, lnRef, lnDate, parseSel>>

\* Git.retrieve filters what _get_all_refs yielded: a line parsed to None is
\* not yielded and so not selected.
FilterRef ==
    /\ parsePc = "parsed"
    /\ parseSel' = IF parsed = <<>> THEN "False" ELSE predicate(git, parsed[1], "None")
    /\ parsePc' = "filtered"
    /\ UNCHANGED <<git, driverVars, predVars, restParse, lnRef, lnDate, parsed>>

NextParse == ParseRef \/ FilterRef

SpecParse == InitParse /\ [][NextParse]_vars

\* ------------------------------------------------- ordering of revisions

\* Code points of the characters of the names compared.
ord(c) == IF c = "1" THEN 49 ELSE IF c = "2" THEN 50
          ELSE IF c = "m" THEN 109 ELSE 118

RECURSIVE str_cmp(_, _)
\* Comparison of two str: "lt", "eq" or "gt" (lexicographic by code point).
str_cmp(s, t) ==
    IF s = <<>> THEN (IF t = <<>> THEN "eq" ELSE "lt")
    ELSE IF t = <<>> THEN "gt"
    ELSE IF ord(Head(s)) < ord(Head(t)) THEN "lt"
    ELSE IF ord(Head(s)) > ord(Head(t)) THEN "gt"
    ELSE str_cmp(Tail(s), Tail(t))

\* Rich comparison of two tuples (tuple.__gt__, __le__, __ge__): the first
\* field in which they differ decides, in field order name, type_, date,
\* remote (obj and ref are equal in the revisions compared).  GitRefType is
\* a plain Enum and None is not ordered against a str: ordering two unequal
\* values of either raises TypeError.
tuple_cmp(a, b) ==
    IF a.name # b.name THEN str_cmp(a.name, b.name)
    ELSE IF a.type_ # b.type_ THEN "TypeError"
    ELSE IF a.date # b.date THEN (IF a.date < b.date THEN "lt" ELSE "gt")
    ELSE IF a.remote # b.remote THEN "TypeError"
    ELSE "eq"

Bool(v) == IF v THEN "True" ELSE "False"

\* GitRef.__lt__
lt(a, b) == Bool(a.date < b.date)

\* total_ordering adds only the operators the class does not already have
\* from a base other than object; a NamedTuple has tuple's, so these stay:
gt(a, b) ==
    LET c == tuple_cmp(a, b) IN IF c = "TypeError" THEN c ELSE Bool(c = "gt")

le(a, b) ==
    LET c == tuple_cmp(a, b) IN IF c = "TypeError" THEN c ELSE Bool(c \in {"lt", "eq"})

ge(a, b) ==
    LET c == tuple_cmp(a, b) IN IF c = "TypeError" THEN c ELSE Bool(c \in {"gt", "eq"})

\* max((a, b)): the first item, replaced by the second if `b > a`.
max_of(a, b) ==
    LET c == gt(b, a)
    IN IF c = "TypeError" THEN [res |-> c, sel |-> <<>>]
       ELSE [res |-> "True", sel |-> IF c = "True" THEN <<b>> ELSE <<a>>]

\* min((a, b)): the first item, replaced by the second if `b < a`.
min_of(a, b) ==
    [res |-> "True", sel |-> IF lt(b, a) = "True" THEN <<b>> ELSE <<a>>]

\* The revisions compared, as mock data and the tests build them: obj and
\* ref are empty strings.
OrdNames == {<<"v", "1">>, <<"v", "2">>, <<"m">>}
OrdDates == {1, 2}
OrdRefs == {GitRef(n, t, d, NoRemote) : n \in OrdNames, t \in GitRefType, d \in OrdDates}

CmpOps == {"<", ">", "<=", ">=", "max", "min"}

InitOrder ==
    /\ root = "repo"
    /\ store = <<>>
    /\ git = DriverGit
    /\ DriverIdle
    /\ PredIdle
    /\ RetrIdle
    /\ ParseIdle
    /\ GroupIdle
    /\ JsonIdle
    /\ CmdIdle
    /\ LocalIdle
    /\ RootIdle
    /\ SelIdle
    /\ AllIdle
    /\ PoetryIdle
    /\ DataIdle
    /\ NameIdle
    /\ ScmIdle
    /\ cmpA \in OrdRefs
    /\ cmpB \in OrdRefs
    /\ cmpOp = "none"
    /\ cmpRes = "unset"
    /\ cmpSel = <<>>

\* a < b, a > b, a <= b, a >= b, max((a, b)), min((a, b))
Compare(op) ==
    /\ cmpOp = "none"
    /\ cmpOp' = op
    /\ LET r == IF op = "<" THEN [res |-> lt(cmpA, cmpB), sel |-> <<>>]
                ELSE IF op = ">" THEN [res |-> gt(cmpA, cmpB), sel |-> <<>>]
                ELSE IF op = "<=" THEN [res |-> le(cmpA, cmpB), sel |-> <<>>]
                ELSE IF op = ">=" THEN [res |-> ge(cmpA, cmpB), sel |-> <<>>]
                ELSE IF op = "max" THEN max_of(cmpA, cmpB)
                ELSE min_of(cmpA, cmpB)
       IN cmpRes' = r.res /\ cmpSel' = r.sel
    /\ UNCHANGED <<git, driverVars, predVars, restOrd, cmpA, cmpB>>

NextOrder == \E op \in CmpOps : Compare(op)

SpecOrder == InitOrder /\ [][NextOrder]_vars

\* ----------------------------------------------------------- refs_by_type

\* Number of revisions passed to refs_by_type at most.
MaxGroup == 3

\* The revisions grouped.
GroupRefs == {AllRefs[i] : i \in 1..4}

\* list(filter(lambda r: r.type_ == type_, it)): the items the iterable
\* still yields that have the type, in order.
filter_type(type_, items) == SelectSeq(items, LAMBDA r : r.type_ = type_)

\* What iterating `refs` a second time yields: everything again for a list
\* or tuple, nothing for an iterator that the first pass has exhausted.
second_pass(refs, oneShot) == IF oneShot THEN <<>> ELSE refs

\* refs_by_type(refs): the two filters run one after the other over the
\* same object `refs`.
refs_by_type(refs, oneShot) ==
    [branches |-> filter_type(BRANCH, refs),
     tags |-> filter_type(TAG, second_pass(refs, oneShot))]

InitGroup ==
    /\ root = "repo"
    /\ store = <<>>
    /\ git = DriverGit
    /\ DriverIdle
    /\ PredIdle
    /\ RetrIdle
    /\ ParseIdle
    /\ OrdIdle
    /\ JsonIdle
    /\ CmdIdle
    /\ LocalIdle
    /\ RootIdle
    /\ SelIdle
    /\ AllIdle
    /\ PoetryIdle
    /\ DataIdle
    /\ NameIdle
    /\ ScmIdle
    /\ \E n \in 0..MaxGroup : gIn \in [1..n -> GroupRefs]
    /\ gOneShot \in BOOLEAN
    /\ gPc = "start"
    /\ gBranches = <<>>
    /\ gTags = <<>>

\* branches, tags = refs_by_type(refs)
CallRefsByType ==
    /\ gPc = "start"
    /\ LET r == refs_by_type(gIn, gOneShot)
       IN gBranches' = r.branches /\ gTags' = r.tags
    /\ gPc' = "done"
    /\ UNCHANGED <<git, driverVars, predVars, restGroup, gIn, gOneShot>>

NextGroup == CallRefsByType

SpecGroup == InitGroup /\ [][NextGroup]_vars

\* ------------------------------------------------------ Encoder / Decoder

\* Python values, tagged with their type: k is the type, v the payload.
PyInt(n) == [k |-> "int", v |-> n]
PyStr(s) == [k |-> "str", v |-> s]
PyNone == [k |-> "none", v |-> "None"]
PyList(items) == [k |-> "list", v |-> items]
PyTuple(items) == [k |-> "tuple", v |-> items]
\* a dict with str keys: v is a function from the keys to the values
PyDict(f) == [k |-> "dict", v |-> f]
\* datetime: v numbers the instant
PyDatetime(d) == [k |-> "datetime", v |-> d]
\* a GitRefType member: v is its name
PyGitRefType(n) == [k |-> "GitRefType", v |-> n]
\* a GitRef: v holds its fields (name, type_, date, remote), any values
PyGitRef(fields) == [k |-> "GitRef", v |-> fields]
\* an exception raised in place of a value
PyRaise(e) == [k |-> "raise", v |-> e]

\* JSON text, by its grammar: number, string, null, array, object.
JsonNumber(n) == [k |-> "number", v |-> n]
JsonString(s) == [k |-> "string", v |-> s]
JsonNull == [k |-> "null", v |-> "null"]
JsonArray(items) == [k |-> "array", v |-> items]
JsonObject(f) == [k |-> "object", v |-> f]

\* Identifiers determine_classname gives the hook and the classes.
StdHookName == "sphinx_polyversion.json.std_hook"
GitRefName == "sphinx_polyversion.git.GitRef"
GitRefTypeName == "sphinx_polyversion.git.GitRefType"

\* determine_classname(o) of an instance: module and qualified class name
\* (getmodule finds no module for an instance of a builtin or C type).
determine_classname(o) ==
    IF o.k = "GitRef" THEN GitRefName
    ELSE IF o.k = "GitRefType" THEN GitRefTypeName
    ELSE IF o.k = "datetime" THEN ".datetime"
    ELSE IF o.k = "int" THEN ".int"
    ELSE "." \o o.k

\* datetime.isoformat() and datetime.fromisoformat() on the instants used.
isoformat(d) == IF d = 1 THEN "2023-01-01T00:00:00" ELSE "2023-12-02T00:00:00"
IsoStrings == {"2023-01-01T00:00:00", "2023-12-02T00:00:00"}
fromisoformat(s) == IF s = "2023-01-01T00:00:00" THEN 1 ELSE 2

\* std_hook.fields(o): the iso string of a datetime, None (<<>>) otherwise.
std_hook_fields(o) == IF o.k = "datetime" THEN <<PyStr(isoformat(o.v))>> ELSE <<>>

\* A from_json that hands the fields back as they are.
std_hook_from_json_raw(cls, o) == o

\* std_hook.from_json(cls, o): datetime.fromisoformat(o), whatever cls is.
std_hook_from_json(cls, o) ==
    IF o.k = "str" /\ o.v \in IsoStrings THEN PyDatetime(fromisoformat(o.v))
    ELSE IF o.k = "str" THEN PyRaise("ValueError")
    ELSE PyRaise("TypeError")

\* o._json_fields() of the Transformable classes.
json_fields(o) == IF o.k = "GitRef" THEN PyTuple(o.v) ELSE PyStr(o.v)

\* GitRefType._from_json_fields(o): cls[o]
GitRefType_from_json_fields(o) ==
    IF o.k = "str" /\ o.v \in GitRefType THEN PyGitRefType(o.v)
    ELSE PyRaise("KeyError")

\* GitRef._from_json_fields(o): cls(*o); remote is optional.
GitRef_from_json_fields(o) ==
    IF o.k \in {"list", "tuple"} /\ Len(o.v) = 4 THEN PyGitRef(o.v)
    ELSE IF o.k \in {"list", "tuple"} /\ Len(o.v) = 3 THEN PyGitRef(Append(o.v, PyNone))
    ELSE PyRaise("TypeError")

RECURSIVE transform(_, _)
\* Encoder.transform(o): hooks first, then _json_fields, then containers.
transform(hooks, o) ==
    IF StdHookName \in hooks /\ std_hook_fields(o) # <<>>
    THEN PyDict("__jsonhook__" :>
                  PyTuple(<<PyStr(StdHookName), PyStr(determine_classname(o)),
                            transform(hooks, std_hook_fields(o)[1])>>))
    ELSE IF o.k \in {"GitRef", "GitRefType"}
    THEN PyDict("__jsonclass__" :>
                  PyTuple(<<PyStr(determine_classname(o)),
                            transform(hooks, json_fields(o))>>))
    ELSE IF o.k = "dict"
    THEN PyDict([key \in DOMAIN o.v |-> transform(hooks, o.v[key])])
    ELSE IF o.k \in {"list", "tuple"}
    THEN PyList([i \in 1..Len(o.v) |-> transform(hooks, o.v[i])])
    ELSE o

RECURSIVE serializable(_)
\* Whether json.dumps accepts the value (else: TypeError).
serializable(o) ==
    IF o.k \in {"int", "str", "none"} THEN TRUE
    ELSE IF o.k \in {"list", "tuple"} THEN \A i \in 1..Len(o.v) : serializable(o.v[i])
    ELSE IF o.k = "dict" THEN \A key \in DOMAIN o.v : serializable(o.v[key])
    ELSE FALSE

RECURSIVE dumps(_)
\* json.dumps: lists and tuples both become arrays.
dumps(o) ==
    IF o.k = "int" THEN JsonNumber(o.v)
    ELSE IF o.k = "str" THEN JsonString(o.v)
    ELSE IF o.k = "none" THEN JsonNull
    ELSE IF o.k = "dict" THEN JsonObject([key \in DOMAIN o.v |-> dumps(o.v[key])])
    ELSE JsonArray([i \in 1..Len(o.v) |-> dumps(o.v[i])])

\* An object_hook that looks the identifier up without testing that it is
\* registered: a KeyError for an unknown class or hook.
object_hook_strict(types, hooks, o) ==
    IF "__jsonclass__" \in DOMAIN o.v
    THEN LET p == o.v["__jsonclass__"]
         IN IF p.k # "list" THEN PyRaise("TypeError")
            ELSE IF Len(p.v) # 2 THEN PyRaise("ValueError")
            ELSE IF p.v[1].k = "str" /\ p.v[1].v \in types
                 THEN (IF p.v[1].v = GitRefName THEN GitRef_from_json_fields(p.v[2])
                       ELSE GitRefType_from_json_fields(p.v[2]))
                 ELSE PyRaise("KeyError")
    ELSE IF "__jsonhook__" \in DOMAIN o.v
    THEN LET p == o.v["__jsonhook__"]
         IN IF p.k # "list" THEN PyRaise("TypeError")
            ELSE IF Len(p.v) # 3 THEN PyRaise("ValueError")
            ELSE IF p.v[1].k = "str" /\ p.v[1].v \in hooks
                 THEN std_hook_from_json(p.v[2], p.v[3])
                 ELSE PyRaise("KeyError")
    ELSE o

\* Decoder.object_hook(o), o a dict whose values are already decoded.
object_hook(types, hooks, o) ==
    IF "__jsonclass__" \in DOMAIN o.v
    THEN LET p == o.v["__jsonclass__"]
         IN IF p.k # "list" THEN PyRaise("TypeError")
            ELSE IF Len(p.v) # 2 THEN PyRaise("ValueError")
            ELSE IF p.v[1].k = "str" /\ p.v[1].v \in types
                 THEN (IF p.v[1].v = GitRefName THEN GitRef_from_json_fields(p.v[2])
                       ELSE GitRefType_from_json_fields(p.v[2]))
                 ELSE o
    ELSE IF "__jsonhook__" \in DOMAIN o.v
    THEN LET p == o.v["__jsonhook__"]
         IN IF p.k # "list" THEN PyRaise("TypeError")
            ELSE IF Len(p.v) # 3 THEN PyRaise("ValueError")
            ELSE IF p.v[1].k = "str" /\ p.v[1].v \in hooks
                 THEN std_hook_from_json(p.v[2], p.v[3])
                 ELSE o
    ELSE o

\* The exception a container's items raised, if any (<<>> if none).
raised_in(items) ==
    LET bad == {i \in DOMAIN items : items[i].k = "raise"}
    IN IF bad = {} THEN <<>> ELSE <<items[CHOOSE i \in bad : TRUE]>>

RECURSIVE loads(_, _, _)
\* json.loads(s, object_hook=...): arrays become lists, objects dicts, and
\* the hook is applied to every dict once its values are decoded.
loads(types, hooks, w) ==
    IF w.k = "number" THEN PyInt(w.v)
    ELSE IF w.k = "string" THEN PyStr(w.v)
    ELSE IF w.k = "null" THEN PyNone
    ELSE IF w.k = "array"
    THEN LET items == [i \in 1..Len(w.v) |-> loads(types, hooks, w.v[i])]
         IN IF raised_in(items) # <<>> THEN raised_in(items)[1] ELSE PyList(items)
    ELSE LET items == [key \in DOMAIN w.v |-> loads(types, hooks, w.v[key])]
         IN IF raised_in(items) # <<>> THEN raised_in(items)[1]
            ELSE object_hook(types, hooks, PyDict(items))

\* Length of the lists and tuples encoded at most.
MaxSeq == 2

\* The largest number of awaitables handed to async_all.
MaxAwait == 3

\* The number of environments alive at the same time: Poetry environments
\* of one project path, environments of the tasks of a SetuptoolsScmDriver.
MaxEnvs == 2

\* The values encoded: scalars, datetimes, GitRefType members and revisions,
\* lists, tuples and dicts of these, and containers of those.  ReservedDict
\* is a plain dict that uses the key a class payload is tagged with.
Scalars == {PyInt(1), PyStr("a"), PyNone}
Datetimes == {PyDatetime(1), PyDatetime(2)}
Members == {PyGitRefType(t) : t \in GitRefType}
Revisions ==
    { PyGitRef(<<PyStr("main"), PyGitRefType(BRANCH), PyDatetime(1), PyNone>>),
      PyGitRef(<<PyStr("v1"), PyGitRefType(TAG), PyDatetime(2), PyStr("origin")>>) }
ReservedDict == PyDict("__jsonclass__" :> PyList(<<PyStr(GitRefTypeName), PyStr(TAG)>>))
Atoms == Scalars \cup Datetimes \cup Members \cup Revisions
SeqsOf(S) == UNION {[1..n -> S] : n \in 0..MaxSeq}
Level1 ==
    {PyList(s) : s \in SeqsOf(Atoms)} \cup {PyTuple(s) : s \in SeqsOf(Atoms)}
    \cup {PyDict("a" :> x) : x \in Atoms} \cup {ReservedDict}
Level2 ==
    {PyList(<<c>>) : c \in Level1} \cup {PyTuple(<<c>>) : c \in Level1}
    \cup {PyDict("a" :> c @@ "b" :> PyInt(1)) : c \in Level1}
PyValues == Atoms \cup Level1 \cup Level2

InitJson ==
    /\ root = "repo"
    /\ store = <<>>
    /\ git = DriverGit
    /\ DriverIdle
    /\ PredIdle
    /\ RetrIdle
    /\ ParseIdle
    /\ OrdIdle
    /\ GroupIdle
    /\ CmdIdle
    /\ LocalIdle
    /\ RootIdle
    /\ SelIdle
    /\ AllIdle
    /\ PoetryIdle
    /\ DataIdle
    /\ NameIdle
    /\ ScmIdle
    /\ encHooks \in SUBSET {StdHookName}
    /\ decTypes \in SUBSET {GitRefName, GitRefTypeName}
    /\ decHooks \in SUBSET {StdHookName}
    /\ jsonX \in PyValues
    /\ jsonPc = "start"
    /\ wire = JsonNull
    /\ jsonY = PyNone

\* Encoder.encode(o): json.dumps of the transformed value.
Encode ==
    /\ jsonPc = "start"
    /\ LET t == transform(encHooks, jsonX)
       IN IF serializable(t)
          THEN wire' = dumps(t) /\ jsonPc' = "encoded"
          ELSE wire' = wire /\ jsonPc' = "encode_raised"
    /\ UNCHANGED <<git, driverVars, predVars, restJson, encHooks, decTypes, decHooks,
                   jsonX, jsonY>>

\* Decoder.decode(s)
Decode ==
    /\ jsonPc = "encoded"
    /\ LET y == loads(decTypes, decHooks, wire)
       IN IF y.k = "raise"
          THEN jsonY' = jsonY /\ jsonPc' = "decode_raised"
          ELSE jsonY' = y /\ jsonPc' = "decoded"
    /\ UNCHANGED <<git, driverVars, predVars, restJson, encHooks, decTypes, decHooks,
                   jsonX, wire>>

NextJson == Encode \/ Decode

SpecJson == InitJson /\ [][NextJson]_vars

\* -------------------------------------------------- CommandBuilder.build

\* The commands of a CommandBuilder.
Commands == {"pre_cmd", "cmd", "post_cmd"}

\* Exit codes of a subprocess (negative: ended by a signal).
ExitCodes == {0, 1, -9}

\* An exit-code test that takes only positive codes for failures.
failed_positive(rc) == rc > 0

\* `if rc:`
failed(rc) == rc # 0

\* out, err, rc = await environment.run(*command, env=env): what the process
\* printed is named after the command that printed it.
environment_run(command, rcs) == [cmd |-> command, rc |-> rcs[command], out |-> command]

\* CalledProcessError(rc, " ".join(cmd), out, err): `cmd` is the build
\* command in all three raise statements; rc and out are those of the
\* command just run.
CalledProcessError(r) == [cmd |-> "cmd", returncode |-> r.rc, output |-> r.out]

InitCommand ==
    /\ root = "repo"
    /\ store = <<>>
    /\ git = DriverGit
    /\ DriverIdle
    /\ PredIdle
    /\ RetrIdle
    /\ ParseIdle
    /\ OrdIdle
    /\ GroupIdle
    /\ JsonIdle
    /\ LocalIdle
    /\ RootIdle
    /\ SelIdle
    /\ AllIdle
    /\ PoetryIdle
    /\ DataIdle
    /\ NameIdle
    /\ ScmIdle
    /\ bPreCmd \in BOOLEAN
    /\ bPostCmd \in BOOLEAN
    /\ bRc \in [Commands -> ExitCodes]
    /\ bPc = "pre"
    /\ bRan = <<>>
    /\ bCause = <<>>

\* One of the three stages of build: run the command if there is one, raise
\* BuildError if it failed, go on to the stage `then` otherwise.
Stage(present, command, then) ==
    IF present
    THEN LET r == environment_run(command, bRc)
         IN /\ bRan' = Append(bRan, r)
            /\ IF failed(r.rc)
               THEN bPc' = "raised" /\ bCause' = <<CalledProcessError(r)>>
               ELSE bPc' = then /\ bCause' = bCause
    ELSE bPc' = then /\ UNCHANGED <<bRan, bCause>>

\* build up to the end of the pre hook
PreHook ==
    /\ bPc = "pre"
    /\ Stage(bPreCmd, "pre_cmd", "cmd")
    /\ UNCHANGED <<git, driverVars, predVars, restCmd, bPreCmd, bPostCmd, bRc>>

\* the build command
BuildCommand ==
    /\ bPc = "cmd"
    /\ Stage(TRUE, "cmd", "post")
    /\ UNCHANGED <<git, driverVars, predVars, restCmd, bPreCmd, bPostCmd, bRc>>

\* the post hook, after which build returns
PostHook ==
    /\ bPc = "post"
    /\ Stage(bPostCmd, "post_cmd", "returned")
    /\ UNCHANGED <<git, driverVars, predVars, restCmd, bPreCmd, bPostCmd, bRc>>

NextCommand == PreHook \/ BuildCommand \/ PostHook

SpecCommand == InitCommand /\ [][NextCommand]_vars

\* ----------------------------------------- Driver.run(mock=True): build_local

\* The revision mock data names as `current` when it is not one of the
\* mocked revisions.
LocalRef == GitRef(<<"l", "o", "c", "a", "l">>, BRANCH, 7, NoRemote)

\* MockData: the revisions and the current revision.
MockData(revisions, current) == [revisions |-> revisions, current |-> current]

\* `if rev not in self.targets: self.targets.append(rev)`
with_current(revisions, rev) ==
    IF InSeq(rev, revisions) THEN revisions ELSE Append(revisions, rev)

\* `self.targets = self.builds = self.mock["revisions"]` binds the three
\* names to one list object: the mock data m as it is when that list holds b.
same_list(m, b) == IF m = <<>> THEN m ELSE <<[m[1] EXCEPT !.revisions = b]>>

\* A build_local that goes on to the root whatever left the `with` block.
local_end_ignore(e) == "built"

\* Where build_local goes when the `with` block is left with exception e
\* ("none": normally): nothing catches an exception, so build_succeeded and
\* build_root are reached only without one.
local_end(e) == IF e = "none" THEN "built" ELSE "raised"

InitLocal ==
    /\ root \in RootKinds
    /\ store = <<>>
    /\ git = DriverGit
    /\ DriverIdle
    /\ PredIdle
    /\ RetrIdle
    /\ ParseIdle
    /\ OrdIdle
    /\ GroupIdle
    /\ JsonIdle
    /\ CmdIdle
    /\ RootIdle
    /\ SelIdle
    /\ AllIdle
    /\ PoetryIdle
    /\ DataIdle
    /\ NameIdle
    /\ ScmIdle
    /\ \/ mock = <<>>
       \/ \E n \in 0..MaxStore, c \in {LocalRef, AllRefs[1]} :
            mock = <<MockData(SubSeq(AllRefs, 1, n), c)>>

\* The `with` blocks of build_local, st entered, are left with exception e
\* after the steps lg, the environment being in state envNow: the environment is
\* exited and the temporary directory removed, innermost first; without an
\* exception build_succeeded appends the revision to Driver.builds, which is
\* the same list as Driver.targets; with one, asyncio.run re-raises it.
LocalLeave(st, lg, e, envNow) ==
    LET closing == close_stack(st)
        ending == local_end(e)
    IN /\ evlog' = <<lg \o closing>>
       /\ stack' = <<<<>>>>
       /\ workspace' = <<IF InSeq("tmp_destroy", closing) THEN "removed" ELSE workspace[1]>>
       /\ envState' = <<IF InSeq("env_exit", closing) THEN "exited" ELSE envNow>>
       /\ exc' = <<e>>
       /\ pc' = <<ending>>
       /\ IF ending = "built"
          THEN /\ builds' = build_succeeded(builds, mock[1].current)
               /\ targets' = build_succeeded(builds, mock[1].current)
               /\ UNCHANGED <<runPc, runExc>>
          ELSE /\ runPc' = "closed"
               /\ runExc' = e
               /\ UNCHANGED <<builds, targets>>

\* build_local up to the temporary directory: ValueError without mock data;
\* else targets and builds are both bound to the list of mocked revisions,
\* to which the current revision is appended if it is missing, and the
\* builder is created.
LocalStart ==
    /\ runPc = "start"
    /\ IF mock = <<>>
       THEN /\ runPc' = "closed"
            /\ runExc' = "ValueError"
            /\ UNCHANGED <<targets, builds, pc, stack, workspace, envState, exc, evlog>>
       ELSE /\ runPc' = "local"
            /\ targets' = with_current(mock[1].revisions, mock[1].current)
            /\ builds' = with_current(mock[1].revisions, mock[1].current)
            /\ pc' = <<"pending">>
            /\ stack' = <<<<>>>>
            /\ workspace' = <<"absent">>
            /\ envState' = <<"none">>
            /\ exc' = <<"none">>
            /\ evlog' = <<<<>>>>
            /\ UNCHANGED runExc
    /\ mock' = same_list(mock, builds')
    /\ UNCHANGED <<root, store, git, gitRc, finished, outdirs, manifest, rootRuns,
                   predVars, restLocal>>

\* tempfile.TemporaryDirectory() is entered and the working tree copied into
\* it: copytree raises when the root does not exist.
LocalCopy ==
    /\ runPc = "local"
    /\ pc[1] = "pending"
    /\ LET lg == evlog[1] \o <<"tmp_create", "copytree">> IN
       IF root = "missing"
       THEN LocalLeave(<<"tmp">>, lg, "FileNotFoundError", envState[1])
       ELSE /\ evlog' = <<lg>>
            /\ workspace' = <<"present">>
            /\ stack' = <<<<"tmp">>>>
            /\ pc' = <<"copied">>
            /\ UNCHANGED <<envState, exc, builds, targets, runPc, runExc>>
    /\ mock' = same_list(mock, builds')
    /\ UNCHANGED <<root, store, git, gitRc, finished, outdirs, manifest, rootRuns,
                   predVars, restLocal>>

\* `async with await self.init_environment(path, rev) as env`: __aenter__
\* returns or raises; if it raises, __aexit__ is not called.
LocalEnterEnv ==
    /\ runPc = "local"
    /\ pc[1] = "copied"
    /\ \E o \in {"ok", "BuildError", "FileNotFoundError"} :
         IF o = "ok"
         THEN /\ stack' = <<Append(stack[1], "env")>>
              /\ envState' = <<"entered">>
              /\ evlog' = <<Append(evlog[1], "env_enter")>>
              /\ pc' = <<"entered">>
              /\ UNCHANGED <<workspace, exc, builds, targets, runPc, runExc>>
         ELSE LocalLeave(stack[1], Append(evlog[1], "env_enter_raised"), o, "enter_failed")
    /\ mock' = same_list(mock, builds')
    /\ UNCHANGED <<root, store, git, gitRc, finished, outdirs, manifest, rootRuns,
                   predVars, restLocal>>

\* data = await self.init_data(rev, env)
LocalInitData ==
    /\ runPc = "local"
    /\ pc[1] = "entered"
    /\ \E o \in {"ok", "Exception"} :
         IF o = "ok"
         THEN /\ evlog' = <<Append(evlog[1], "data")>>
              /\ pc' = <<"data">>
              /\ UNCHANGED <<stack, workspace, envState, exc, builds, targets, runPc,
                             runExc>>
         ELSE LocalLeave(stack[1], Append(evlog[1], "data"), o, envState[1])
    /\ mock' = same_list(mock, builds')
    /\ UNCHANGED <<root, store, git, gitRc, finished, outdirs, manifest, rootRuns,
                   predVars, restLocal>>

\* builder.build(env, output_dir / "local", data), after which the `with`
\* blocks are left and, without an exception, build_succeeded is called.
LocalBuild ==
    /\ runPc = "local"
    /\ pc[1] = "data"
    /\ outdirs' = outdirs \cup {<<"l", "o", "c", "a", "l">>}
    /\ \E rc \in {0, 1, -1} :
         LocalLeave(stack[1], Append(evlog[1], "build"), command_builder_result(rc),
                    envState[1])
    /\ mock' = same_list(mock, builds')
    /\ UNCHANGED <<root, store, git, gitRc, finished, manifest, rootRuns,
                   predVars, restLocal>>

\* await self.build_root(), after which run returns.
LocalBuildRoot ==
    /\ runPc = "local"
    /\ pc[1] = "built"
    /\ manifest' = [written |-> TRUE, revs |-> builds]
    /\ rootRuns' = rootRuns + 1
    /\ runPc' = "done"
    /\ UNCHANGED <<root, store, git, runExc, gitRc, targets, pc, stack, workspace,
                   envState, exc, evlog, builds, finished, outdirs, predVars, restLocal,
                   mock>>

NextLocal ==
    \/ LocalStart
    \/ LocalCopy
    \/ LocalEnterEnv
    \/ LocalInitData
    \/ LocalBuild
    \/ LocalBuildRoot

SpecLocal == InitLocal /\ [][NextLocal]_vars

\* ------------------------------------------- DefaultDriver.build_root

\* A directory entry: its path relative to the directory listed, split at
\* "/", and whether it is a file or a directory.
Entry(path, kind) == [path |-> path, kind |-> kind]

\* What a static directory may hold.
StaticEntries ==
    { Entry(<<"a.css">>, "file"),
      Entry(<<"sub">>, "dir"),
      Entry(<<"sub", "b.js">>, "file"),
      Entry(<<"sub", "deep">>, "dir"),
      Entry(<<"sub", "deep", "c.js">>, "file") }

\* The directory a path lies in.
parent(path) == SubSeq(path, 1, Len(path) - 1)

\* A set of entries is a directory tree: every entry lies in the top
\* directory or in a directory of the set.
IsTree(t) ==
    \A e \in t : Len(e.path) = 1 \/ Entry(parent(e.path), "dir") \in t

\* shift_path(src_anchor, dst_anchor, src): src relative to src_anchor, put
\* under dst_anchor.
shift_path(src_anchor, dst_anchor, src) ==
    dst_anchor \o SubSeq(src, Len(src_anchor) + 1, Len(src))

\* The anchors: static_dir and output_dir.
StaticDir == <<"static">>
OutputDir == <<"build">>

\* shutil.copyfile(src, dst) for the entry e of static_dir, out being what
\* output_dir holds: a directory cannot be opened as a file, and the
\* directory dst lies in must exist.
copyfile(e, out) ==
    LET dst == shift_path(StaticDir, OutputDir, StaticDir \o e.path)
        rel == SubSeq(dst, Len(OutputDir) + 1, Len(dst))
    IN IF e.kind = "dir" THEN [exc |-> "IsADirectoryError", out |-> out]
       ELSE IF Len(rel) > 1 /\ Entry(parent(rel), "dir") \notin out
            THEN [exc |-> "FileNotFoundError", out |-> out]
       ELSE IF Entry(rel, "dir") \in out
            THEN [exc |-> "IsADirectoryError", out |-> out]
       ELSE [exc |-> "none", out |-> out \cup {Entry(rel, "file")}]

InitRoot ==
    /\ root = "repo"
    /\ store = <<>>
    /\ git = DriverGit
    /\ DriverIdle
    /\ PredIdle
    /\ RetrIdle
    /\ ParseIdle
    /\ OrdIdle
    /\ GroupIdle
    /\ JsonIdle
    /\ CmdIdle
    /\ LocalIdle
    /\ SelIdle
    /\ AllIdle
    /\ PoetryIdle
    /\ DataIdle
    /\ NameIdle
    /\ ScmIdle
    /\ stDir \in {"unset", "missing", "present"}
    /\ stTree \in {t \in SUBSET StaticEntries : IsTree(t)}
    /\ (stDir # "present" => stTree = {})
    /\ tplDir \in BOOLEAN
    /\ outTree \in {{}, {Entry(<<"sub">>, "dir")}}
    /\ rootPc = "start"
    /\ rootTodo = {}
    /\ rootExc = "none"
    /\ rootLog = <<>>

\* versions.json is written; then, if static_dir is set and exists, rglob
\* starts to list it.
RootManifest ==
    /\ rootPc = "start"
    /\ outTree' = outTree \cup {Entry(<<"versions.json">>, "file")}
    /\ rootLog' = Append(rootLog, "manifest")
    /\ IF stDir = "present"
       THEN rootPc' = "copy" /\ rootTodo' = stTree
       ELSE rootPc' = "templates" /\ rootTodo' = rootTodo
    /\ UNCHANGED <<git, driverVars, predVars, restRoot, stDir, stTree, tplDir, rootExc>>

\* One turn of the loop over static_dir.rglob("*"): the next entry, a
\* directory before what it holds, is handed to shutil.copyfile.
RootCopy ==
    /\ rootPc = "copy"
    /\ rootTodo # {}
    /\ \E e \in rootTodo :
         /\ \A d \in rootTodo : d.path # parent(e.path)
         /\ LET r == copyfile(e, outTree)
            IN /\ outTree' = r.out
               /\ rootExc' = r.exc
               /\ rootPc' = IF r.exc = "none" THEN "copy" ELSE "raised"
               /\ rootTodo' = rootTodo \ {e}
               /\ rootLog' = Append(rootLog, "copy")
    /\ UNCHANGED <<git, driverVars, predVars, restRoot, stDir, stTree, tplDir>>

\* rglob is exhausted: the loop ends.
RootCopied ==
    /\ rootPc = "copy"
    /\ rootTodo = {}
    /\ rootPc' = "templates"
    /\ UNCHANGED <<git, driverVars, predVars, restRoot, stDir, stTree, tplDir, outTree,
                   rootTodo, rootExc, rootLog>>

\* The templates are rendered if template_dir is a directory; build_root
\* returns.
RootTemplates ==
    /\ rootPc = "templates"
    /\ rootLog' = IF tplDir THEN Append(rootLog, "render") ELSE rootLog
    /\ outTree' = IF tplDir THEN outTree \cup {Entry(<<"index.html">>, "file")} ELSE outTree
    /\ rootPc' = "done"
    /\ UNCHANGED <<git, driverVars, predVars, restRoot, stDir, stTree, tplDir, rootTodo,
                   rootExc>>

NextRoot == RootManifest \/ RootCopy \/ RootCopied \/ RootTemplates

SpecRoot == InitRoot /\ [][NextRoot]_vars

\* --------------------------------- DefaultDriver.__init__ and the selector

\* Keys of the mappings passed for `builder` and `env`.
SelKeys == {"old", "new"}

\* The revisions builders and environments are chosen for.
SelRevs == {AllRefs[1], AllRefs[2]}

\* What is passed for `builder` or `env`: one value, a dict, or a Mapping
\* that is not a dict (types.MappingProxyType); `at` gives what a mapping
\* holds at each key.
OneValue(what) == [kind |-> "value", at |-> [k \in {"it"} |-> what]]
KeyedBy(kind, what) == [kind |-> kind, at |-> [k \in SelKeys |-> <<what, k>>]]
Passed(what) == {OneValue(<<what, "it">>), KeyedBy("dict", what), KeyedBy("Mapping", what)}

\* isinstance(x, dict) and isinstance(x, Mapping)
is_dict(x) == x.kind = "dict"
is_mapping(x) == x.kind \in {"dict", "Mapping"}

\* A check that and-s the whole disjunction with `not selector`.
ctor_raises_grouped(builder, env, selector) ==
    (is_dict(builder) \/ is_dict(env)) /\ selector = <<>>

\* `isinstance(builder, dict) or isinstance(env, dict) and not selector`:
\* `and` binds tighter than `or`.
ctor_raises(builder, env, selector) ==
    is_dict(builder) \/ (is_dict(env) /\ selector = <<>>)

\* init_builder / init_environment for what was passed: the selector is
\* called with the revision for a Mapping (TypeError when it is None), its
\* result awaited if awaitable, and the entry at that key is taken.
select(passed, selector, rev) ==
    IF is_mapping(passed)
    THEN (IF selector = <<>> THEN [exc |-> "TypeError", it |-> "unset"]
          ELSE [exc |-> "none", it |-> passed.at[selector[1].key[rev]]])
    ELSE [exc |-> "none", it |-> passed.at["it"]]

InitSelect ==
    /\ root = "repo"
    /\ store = <<>>
    /\ git = DriverGit
    /\ DriverIdle
    /\ PredIdle
    /\ RetrIdle
    /\ ParseIdle
    /\ OrdIdle
    /\ GroupIdle
    /\ JsonIdle
    /\ CmdIdle
    /\ LocalIdle
    /\ RootIdle
    /\ AllIdle
    /\ PoetryIdle
    /\ DataIdle
    /\ NameIdle
    /\ ScmIdle
    /\ dBuilder \in Passed("builder")
    /\ dEnv \in Passed("env")
    /\ \/ dSelector = <<>>
       \/ \E a \in BOOLEAN, f \in [SelRevs -> SelKeys] :
            dSelector = <<[awaitable |-> a, key |-> f]>>
    /\ dRev \in SelRevs
    /\ dPc = "new"
    /\ dExc = "none"
    /\ dUsed = [builder |-> "unset", env |-> "unset"]

\* DefaultDriver(root, output_dir, vcs=..., builder=..., env=..., selector=...)
Construct ==
    /\ dPc = "new"
    /\ IF ctor_raises(dBuilder, dEnv, dSelector)
       THEN dPc' = "ctor_raised" /\ dExc' = "ValueError"
       ELSE dPc' = "constructed" /\ dExc' = dExc
    /\ UNCHANGED <<git, driverVars, predVars, restSel, dBuilder, dEnv, dSelector, dRev,
                   dUsed>>

\* builder = await self.init_builder(rev)
InitBuilder ==
    /\ dPc = "constructed"
    /\ LET r == select(dBuilder, dSelector, dRev)
       IN /\ dExc' = r.exc
          /\ dUsed' = [dUsed EXCEPT !.builder = r.it]
          /\ dPc' = IF r.exc = "none" THEN "builder" ELSE "raised"
    /\ UNCHANGED <<git, driverVars, predVars, restSel, dBuilder, dEnv, dSelector, dRev>>

\* await self.init_environment(path, rev)
InitEnvironment ==
    /\ dPc = "builder"
    /\ LET r == select(dEnv, dSelector, dRev)
       IN /\ dExc' = r.exc
          /\ dUsed' = [dUsed EXCEPT !.env = r.it]
          /\ dPc' = IF r.exc = "none" THEN "env" ELSE "raised"
    /\ UNCHANGED <<git, driverVars, predVars, restSel, dBuilder, dEnv, dSelector, dRev>>

NextSelect == Construct \/ InitBuilder \/ InitEnvironment

SpecSelect == InitSelect /\ [][NextSelect]_vars

\* ------------------------------------------------------------- async_all

\* What an awaitable yields: a Python value, or an exception ("raise").
PyResults == {"True", "False", "None", "0", "1", "'x'"}
Outcomes == PyResults \cup {"raise"}

\* Truthiness as an identity test (`result is True`).
truthy_identity(v) == v = "True"

\* bool(v), as `not result` converts the result.
truthy(v) == v \in {"True", "1", "'x'"}

\* Returning right after cancelling, without awaiting the cancelled tasks.
after_cancel_no_wait(unfinished) == "returned"

\* `if tasks: await asyncio.wait(tasks)`, then `return False`.
after_cancel(unfinished) == IF unfinished # {} THEN "cancelwait" ELSE "returned"

\* A finished task is one asyncio.wait reports in `done`.
is_done(st) == st \in {"done", "cancelled"}

InitAll ==
    /\ root = "repo"
    /\ store = <<>>
    /\ git = DriverGit
    /\ DriverIdle
    /\ PredIdle
    /\ RetrIdle
    /\ ParseIdle
    /\ OrdIdle
    /\ GroupIdle
    /\ JsonIdle
    /\ CmdIdle
    /\ LocalIdle
    /\ RootIdle
    /\ SelIdle
    /\ PoetryIdle
    /\ DataIdle
    /\ NameIdle
    /\ ScmIdle
    /\ \E n \in 0..MaxAwait : aws \in [1..n -> Outcomes]
    /\ taskState = [i \in DOMAIN aws |-> "pending"]
    /\ tasks = {}
    /\ done = {}
    /\ seen = {}
    /\ allPc = "start"
    /\ allRet = "none"

\* tasks = {asyncio.create_task(aws) ... for aws in awaitables}; `while tasks:`
AllStart ==
    /\ allPc = "start"
    /\ tasks' = DOMAIN aws
    /\ IF DOMAIN aws = {}
       THEN allPc' = "returned" /\ allRet' = TRUE
       ELSE allPc' = "wait" /\ allRet' = allRet
    /\ UNCHANGED <<git, driverVars, predVars, restAll, aws, taskState, done, seen>>

\* The event loop runs a task to its end while async_all is suspended.
TaskFinish(i) ==
    /\ allPc \in {"wait", "raised"}
    /\ taskState[i] = "pending"
    /\ taskState' = [taskState EXCEPT ![i] = "done"]
    /\ UNCHANGED <<git, driverVars, predVars, restAll, aws, tasks, done, seen, allPc,
                   allRet>>

\* done, tasks = await asyncio.wait(tasks, return_when=FIRST_COMPLETED)
AllWake ==
    /\ allPc = "wait"
    /\ \E i \in tasks : is_done(taskState[i])
    /\ done' = {i \in tasks : is_done(taskState[i])}
    /\ tasks' = {i \in tasks : ~is_done(taskState[i])}
    /\ allPc' = "iterate"
    /\ UNCHANGED <<git, driverVars, predVars, restAll, aws, taskState, seen, allRet>>

\* One round of `for finished_task in done:` (a set: any order).
AllIterate(i) ==
    /\ allPc = "iterate"
    /\ i \in done
    /\ seen' = seen \cup {i}
    /\ done' = done \ {i}
    /\ IF aws[i] = "raise"
       THEN /\ allPc' = "raised"
            /\ UNCHANGED <<taskState, tasks, allRet>>
       ELSE IF ~truthy(aws[i])
       THEN /\ taskState' = [j \in DOMAIN taskState |->
                                IF j \in tasks THEN "cancelling" ELSE taskState[j]]
            /\ allPc' = after_cancel(tasks)
            /\ allRet' = IF after_cancel(tasks) = "returned" THEN FALSE ELSE allRet
            /\ UNCHANGED tasks
       ELSE /\ IF done' # {} THEN allPc' = "iterate" /\ allRet' = allRet
               ELSE IF tasks # {} THEN allPc' = "wait" /\ allRet' = allRet
               ELSE allPc' = "returned" /\ allRet' = TRUE
            /\ UNCHANGED <<taskState, tasks>>
    /\ UNCHANGED <<git, driverVars, predVars, restAll, aws>>

\* The event loop throws CancelledError into a task that was cancelled.
TaskCancelled(i) ==
    /\ taskState[i] = "cancelling"
    /\ taskState' = [taskState EXCEPT ![i] = "cancelled"]
    /\ UNCHANGED <<git, driverVars, predVars, restAll, aws, tasks, done, seen, allPc,
                   allRet>>

\* `await asyncio.wait(tasks)` returns when all of them are finished;
\* `return False`
AllCancelWaited ==
    /\ allPc = "cancelwait"
    /\ \A i \in tasks : is_done(taskState[i])
    /\ allPc' = "returned"
    /\ allRet' = FALSE
    /\ UNCHANGED <<git, driverVars, predVars, restAll, aws, taskState, tasks, done, seen>>

NextAll ==
    \/ AllStart
    \/ \E i \in DOMAIN aws : TaskFinish(i)
    \/ AllWake
    \/ \E i \in DOMAIN aws : AllIterate(i)
    \/ \E i \in DOMAIN aws : TaskCancelled(i)
    \/ AllCancelWaited

SpecAll == InitAll /\ [][NextAll]_vars

\* ----------------------------------------------------- Poetry.__aenter__

\* self.path / ".venv" for k = 0 and self.path / f".venv-{k - 1}" after it
venv_candidate(k) == IF k = 0 THEN <<".venv">> ELSE <<".venv-", k - 1>>

\* The loop `while venv_path.exists()`: the first candidate that does not
\* exist among the directories fs.
venv_path(fs) ==
    LET k == CHOOSE k \in 0..Cardinality(fs) :
                 /\ venv_candidate(k) \notin fs
                 /\ \A j \in 0..(k - 1) : venv_candidate(j) \in fs
    IN venv_candidate(k)

\* A venv: the folder poetry keeps its venvs in and the name poetry gives
\* the venv of a project (empty for the folder itself).
Venv(dir, nm) == [dir |-> dir, name |-> nm]
NoVenv == Venv(<<>>, "")

\* What `poetry env info --path` prints: the venv of the project (one
\* name per project path) in the folder POETRY_VIRTUALENVS_PATH.
poetry_env_info(virtualenvs_path) == Venv(virtualenvs_path, "test-py3")

\* The directories a project path may already hold.
OldVenvs == {{}, {venv_candidate(0)}, {venv_candidate(0), venv_candidate(1)}}

InitPoetry ==
    /\ root = "repo"
    /\ store = <<>>
    /\ git = DriverGit
    /\ DriverIdle
    /\ PredIdle
    /\ RetrIdle
    /\ ParseIdle
    /\ OrdIdle
    /\ GroupIdle
    /\ JsonIdle
    /\ CmdIdle
    /\ LocalIdle
    /\ RootIdle
    /\ SelIdle
    /\ AllIdle
    /\ DataIdle
    /\ NameIdle
    /\ ScmIdle
    /\ pFs \in OldVenvs
    /\ pPc = [e \in 1..MaxEnvs |-> "new"]
    /\ pEnvPath = [e \in 1..MaxEnvs |-> <<>>]
    /\ pVenv = [e \in 1..MaxEnvs |-> Venv(venv_candidate(0), "")]
    /\ pRan = [e \in 1..MaxEnvs |-> NoVenv]

\* __aenter__ up to its first await: choose the folder for the venv.
PoetryChoose(e) ==
    /\ pPc[e] = "new"
    /\ pEnvPath' = [pEnvPath EXCEPT ![e] = venv_path(pFs)]
    /\ pPc' = [pPc EXCEPT ![e] = "install"]
    /\ UNCHANGED <<git, driverVars, predVars, restPoetry, pFs, pVenv, pRan>>

\* `poetry install` has ended: with return code 0 the venv exists in the
\* chosen folder, otherwise BuildError is raised.
PoetryInstall(e) ==
    /\ pPc[e] = "install"
    /\ \E rc \in {0, 1} :
         /\ pPc' = [pPc EXCEPT ![e] = IF rc = 0 THEN "locate" ELSE "raised"]
         /\ \/ pFs' = pFs \cup {pEnvPath[e]}
            \/ rc # 0 /\ pFs' = pFs
    /\ UNCHANGED <<git, driverVars, predVars, restPoetry, pEnvPath, pVenv, pRan>>

\* `poetry env info --path` has ended: self.venv = Path(out), or BuildError.
PoetryLocate(e) ==
    /\ pPc[e] = "locate"
    /\ \E rc \in {0, 1} :
         IF rc = 0
         THEN /\ pVenv' = [pVenv EXCEPT ![e] = poetry_env_info(pEnvPath[e])]
              /\ pPc' = [pPc EXCEPT ![e] = "entered"]
         ELSE /\ pVenv' = pVenv
              /\ pPc' = [pPc EXCEPT ![e] = "raised"]
    /\ UNCHANGED <<git, driverVars, predVars, restPoetry, pFs, pEnvPath, pRan>>

\* env.run("python", "-c", "import sys; print(sys.prefix)"): activate puts
\* self.venv into VIRTUAL_ENV and PATH.
PoetryRun(e) ==
    /\ pPc[e] = "entered"
    /\ pRan' = [pRan EXCEPT ![e] = pVenv[e]]
    /\ UNCHANGED <<git, driverVars, predVars, restPoetry, pFs, pPc, pEnvPath, pVenv>>

NextPoetry ==
    \E e \in 1..MaxEnvs :
        PoetryChoose(e) \/ PoetryInstall(e) \/ PoetryLocate(e) \/ PoetryRun(e)

SpecPoetry == InitPoetry /\ [][NextPoetry]_vars

\* ------------------------------------------- DefaultDriver.name_for_rev

\* Refs of a repository in which a branch and a tag carry the same name
\* (refs/heads/v1 and refs/tags/v1), as `git for-each-ref` lists them.
NameRefs ==
    << GitRef(<<"m", "a", "i", "n">>, BRANCH, 1, NoRemote),
       GitRef(<<"v", "1">>, BRANCH, 2, NoRemote),
       GitRef(<<"v", "1">>, TAG, 3, NoRemote),
       GitRef(<<"v", "2">>, TAG, 4, NoRemote) >>

\* A namer of the user that tells branches and tags apart.
typed_namer(rev) == <<rev.type_>> \o rev.name

\* DefaultDriver.name_for_rev(rev):
\* `self.namer(rev) if self.namer else self.vcs.name(rev)`
name_for_rev(namer, rev) ==
    IF namer # <<>> THEN typed_namer(rev) ELSE name(rev)

InitName ==
    /\ root = "repo"
    /\ \E keep \in SUBSET (1..Len(NameRefs)) :
         /\ Cardinality(keep) <= MaxStore
         /\ store = SelectSeq(NameRefs, LAMBDA r : IndexOf(r, NameRefs) \in keep)
    /\ git = DriverGit
    /\ DriverIdle
    /\ PredIdle
    /\ RetrIdle
    /\ ParseIdle
    /\ OrdIdle
    /\ GroupIdle
    /\ JsonIdle
    /\ CmdIdle
    /\ LocalIdle
    /\ RootIdle
    /\ SelIdle
    /\ AllIdle
    /\ PoetryIdle
    /\ DataIdle
    /\ ScmIdle
    /\ nmNamer \in {<<>>, <<"typed_namer">>}
    /\ nmPc = "start"
    /\ nmTargets = <<>>
    /\ nmDirs = <<>>

\* Driver.init: self.targets = await self.vcs.retrieve(self.root)
NameDiscover ==
    /\ nmPc = "start"
    /\ LET listing == get_all_refs(root, store)
       IN nmTargets' = retrieve(git, listing, [i \in 1..Len(listing) |-> "None"])
    /\ nmPc' = "named"
    /\ UNCHANGED <<git, driverVars, predVars, restName, nmNamer, nmDirs>>

\* build_revision of task t reaches
\* builder.build(env, self.output_dir / self.name_for_rev(rev), data=data)
NameDir(t) ==
    /\ nmPc = "named"
    /\ t \in DOMAIN nmTargets
    /\ t \notin DOMAIN nmDirs
    /\ nmDirs' = (t :> Append(OutputDir, name_for_rev(nmNamer, nmTargets[t]))) @@ nmDirs
    /\ UNCHANGED <<git, driverVars, predVars, restName, nmNamer, nmPc, nmTargets>>

NextName == NameDiscover \/ \E t \in 1..Len(NameRefs) : NameDir(t)

SpecName == InitName /\ [][NextName]_vars

\* --------------------------------- SetuptoolsScmDriver.init_environment

\* f"SETUPTOOLS_SCM_PRETEND_VERSION_FOR_{var_dist_name}"
PretendVar == "SETUPTOOLS_SCM_PRETEND_VERSION_FOR_PKG"

\* The versions setuptools-scm determines for the revisions of the tasks
\* (one per task, more entries than tasks).
ScmVersions == <<"1.0", "2.0", "3.0", "4.0">>

\* A dict is the set of its items <<key, value>>.
dict_has(d, k) == \E it \in d : it[1] = k
dict_get(d, k) == IF dict_has(d, k) THEN (CHOOSE it \in d : it[1] = k)[2] ELSE "unset"

\* dict.setdefault(k, v): an existing item is kept.
setdefault(d, k, v) == IF dict_has(d, k) THEN d ELSE d \cup {<<k, v>>}

\* `env` mappings a user passes to Environment.factory.
UserEnvs == {{}, {<<"FOO", "bar">>}, {<<PretendVar, "9.9">>}}

\* `self.env = env or {}` in VirtualPythonEnvironment.__init__: the
\* mapping of the factory itself unless it is None or empty.
env_or_new(given, user) == IF given /\ user # {} THEN "user" ELSE "own"

\* The content of the dict that is the `env` of task t's environment.
env_of(t) == IF scmEnvOf[t] = "user" THEN scmUser ELSE scmOwn[t]

InitScm ==
    /\ root = "repo"
    /\ store = <<>>
    /\ git = DriverGit
    /\ DriverIdle
    /\ PredIdle
    /\ RetrIdle
    /\ ParseIdle
    /\ OrdIdle
    /\ GroupIdle
    /\ JsonIdle
    /\ CmdIdle
    /\ LocalIdle
    /\ RootIdle
    /\ SelIdle
    /\ AllIdle
    /\ PoetryIdle
    /\ DataIdle
    /\ NameIdle
    /\ scmGiven \in BOOLEAN
    /\ scmUser \in UserEnvs
    /\ (~scmGiven => scmUser = {})
    /\ scmOwn = [t \in 1..MaxEnvs |-> {}]
    /\ scmEnvOf = [t \in 1..MaxEnvs |-> "none"]
    /\ scmPc = [t \in 1..MaxEnvs |-> "new"]
    /\ scmSeen = [t \in 1..MaxEnvs |-> "unset"]

\* f = await super().init_environment(path, rev): the factory
\* partial(cls, env=...) creates the environment of task t.
ScmCreate(t) ==
    /\ scmPc[t] = "new"
    /\ scmEnvOf' = [scmEnvOf EXCEPT ![t] = env_or_new(scmGiven, scmUser)]
    /\ scmPc' = [scmPc EXCEPT ![t] = "created"]
    /\ UNCHANGED <<git, driverVars, predVars, restScm, scmGiven, scmUser, scmOwn, scmSeen>>

\* r = await version_for_ref(self.root, rev.obj) has ended: without a
\* version the environment is returned as it is, else
\* f.env.setdefault(PretendVar, version).
ScmSetVersion(t) ==
    /\ scmPc[t] = "created"
    /\ \E r \in {ScmVersions[t], "None"} :
         IF r = "None"
         THEN UNCHANGED <<scmUser, scmOwn>>
         ELSE IF scmEnvOf[t] = "user"
         THEN /\ scmUser' = setdefault(scmUser, PretendVar, r)
              /\ UNCHANGED scmOwn
         ELSE /\ scmOwn' = [scmOwn EXCEPT ![t] = setdefault(@, PretendVar, r)]
              /\ UNCHANGED scmUser
    /\ scmPc' = [scmPc EXCEPT ![t] = "ready"]
    /\ UNCHANGED <<git, driverVars, predVars, restScm, scmGiven, scmEnvOf, scmSeen>>

\* The build command of task t is run: apply_overrides copies the items of
\* self.env into the environment of the process.
ScmBuild(t) ==
    /\ scmPc[t] = "ready"
    /\ scmSeen' = [scmSeen EXCEPT ![t] = dict_get(env_of(t), PretendVar)]
    /\ scmPc' = [scmPc EXCEPT ![t] = "built"]
    /\ UNCHANGED <<git, driverVars, predVars, restScm, scmGiven, scmUser, scmOwn,
                   scmEnvOf>>

NextScm == \E t \in 1..MaxEnvs : ScmCreate(t) \/ ScmSetVersion(t) \/ ScmBuild(t)

SpecScm == InitScm /\ [][NextScm]_vars

\* ------------------------------------------------------------ the claims

\* The run has ended: Driver.run has returned ("done") or raised ("closed").
RunEnded == runPc \in {"done", "closed"}

\* The run got past discovery: Driver.init returned and the tasks were
\* launched.
PastDiscovery == gitRc # -1

\* The revisions whose task ended without an exception of its own steps.
SetOf(sq) == {sq[i] : i \in 1..Len(sq)}

\* C1: when the only failures of a run are checkout errors and BuildErrors,
\* the run completes without raising, Driver.builds holds exactly the
\* revisions whose steps did not fail, and versions.json lists exactly those.
C1_FailuresContained ==
    (/\ PastDiscovery
     /\ \A t \in Tasks : exc[t] \notin {"FileNotFoundError", "Exception"})
    => /\ runPc \notin {"raised", "closed"}
       /\ runPc = "done" =>
            /\ SetOf(builds) = {targets[t] : t \in {u \in Tasks : exc[u] = "none"}}
            /\ Len(builds) = Cardinality({u \in Tasks : exc[u] = "none"})
            /\ manifest.written
            /\ manifest.revs = builds

\* C2: a failing task never cancels a sibling: no task ends by a
\* CancelledError; every task that has ended ended by the outcome of its own
\* steps.
C2_NoSiblingCancelled ==
    \A t \in Tasks : pc[t] \in Terminal => exc[t] # "CancelledError"

\* C3: in every run that got past discovery build_root runs exactly once, and
\* only after every task has reached a terminal state; Driver.builds is what
\* it serialized (nothing is appended after it).
C3_RootOnceAfterTasks ==
    /\ (PastDiscovery /\ RunEnded) => rootRuns = 1
    /\ rootRuns <= 1
    /\ rootRuns = 1 => /\ \A t \in Tasks : pc[t] \in Terminal
                       /\ manifest.revs = builds

\* C4: the temporary workspace of a task is created before the checkout and
\* no longer exists once the task has ended, however it ended (success,
\* BuildError, another exception, cancellation).
C4_WorkspaceScoped ==
    \A t \in Tasks :
       /\ pc[t] \in Terminal => workspace[t] # "present"
       /\ (pc[t] \in Terminal /\ InSeq("tmp_create", evlog[t]))
             => (workspace[t] = "removed" /\ Count("tmp_destroy", evlog[t]) = 1)
       /\ InSeq("checkout", evlog[t])
             => (0 < IndexOf("tmp_create", evlog[t])
                 /\ IndexOf("tmp_create", evlog[t]) < IndexOf("checkout", evlog[t]))
       /\ pc[t] \in {"tmp", "copied", "entered", "data"} => workspace[t] = "present"

\* A run in which one task raised, a sibling was cancelled while it held a
\* workspace, and both workspaces are gone.
C4_Witness ==
    \E t, u \in Tasks :
       /\ pc[t] = "cancelled" /\ InSeq("checkout", evlog[t]) /\ workspace[t] = "removed"
       /\ pc[u] = "raised" /\ workspace[u] = "removed"

\* C5: an environment that was entered is exited exactly once, after the
\* builder call and before the workspace is destroyed; init_data and the
\* builder are only called while the environment is entered.
C5_EnvironmentScoped ==
    \A t \in Tasks :
       LET lg == evlog[t] IN
       /\ Count("env_exit", lg) <= 1
       /\ (pc[t] \in Terminal /\ InSeq("env_enter", lg)) => Count("env_exit", lg) = 1
       /\ InSeq("env_exit", lg) =>
            /\ 0 < IndexOf("env_enter", lg)
            /\ IndexOf("env_enter", lg) < IndexOf("env_exit", lg)
            /\ InSeq("build", lg) => IndexOf("build", lg) < IndexOf("env_exit", lg)
            /\ InSeq("tmp_destroy", lg)
            /\ IndexOf("env_exit", lg) < IndexOf("tmp_destroy", lg)
            /\ envState[t] = "exited"
       /\ \A i \in 1..Len(lg) :
            lg[i] \in {"init_data", "build"} =>
               /\ \E j \in 1..(i - 1) : lg[j] = "env_enter"
               /\ \A j \in 1..(i - 1) : lg[j] # "env_exit"
       /\ pc[t] \in {"entered", "data"} => envState[t] = "entered"

\* A task whose builder raised BuildError: its environment was exited after
\* the build and its workspace destroyed after that.
C5_Witness ==
    \E t \in Tasks :
       /\ pc[t] = "failed"
       /\ InSeq("build", evlog[t])
       /\ InSeq("env_exit", evlog[t])
       /\ workspace[t] = "removed"

\* C6: when __aenter__ of the environment raises, its __aexit__ is still run.
C6_ExitAfterFailedEnter ==
    \A t \in Tasks :
       (envState[t] = "enter_failed" /\ pc[t] \in Terminal) => InSeq("env_exit", evlog[t])

\* C7: when all tasks succeed, Driver.builds has exactly one entry per target
\* (none lost, none duplicated), in the order in which the builds completed.
C7_ConcurrentAppend ==
    /\ builds = [i \in 1..Len(builds) |->
                   targets[SelectSeq(finished, LAMBDA t : pc[t] = "succeeded")[i]]]
    /\ Len(builds) = Cardinality({t \in Tasks : pc[t] = "succeeded"})
    /\ (\A t \in Tasks : pc[t] = "succeeded") =>
          /\ Len(builds) = Len(targets)
          /\ \A t \in Tasks : Count(targets[t], builds) = 1

\* Three builds have all succeeded, and completed in another order than the
\* one they were launched in.
C7_Witness ==
    /\ runPc = "done"
    /\ Len(targets) >= 3
    /\ \A t \in Tasks : pc[t] = "succeeded"
    /\ finished[1] # 1
    /\ builds[1] = targets[finished[1]]

\* C8: a revision whose build failed is absent from the merged output: it is
\* not in versions.json and output_dir has no subdirectory of its name.
C8_FailedAbsentFromOutput ==
    RunEnded =>
       \A t \in Tasks :
          pc[t] = "failed" =>
             /\ ~InSeq(targets[t], manifest.revs)
             /\ name(targets[t]) \notin outdirs

\* C9: when the listing command cannot query the store (it exits nonzero),
\* discovery fails: no build task is started and no manifest is written.
C9_DiscoveryFails ==
    (gitRc # -1 /\ gitRc # 0) =>
       /\ runPc \in {"raised", "closed"}
       /\ Tasks = {}
       /\ ~manifest.written

\* The three conditions of Git.predicate for a ref.
RegexCond(g, ref) ==
    /\ ref.type_ = TAG => fullmatch(g.tag_regex, ref.name)
    /\ ref.type_ = BRANCH => fullmatch(g.branch_regex, ref.name)
RemoteCond(g, ref) == ref.remote = g.remote
SecCond(g, sec) == g.has_predicate => sec \in {"True", "1"}

\* C10: Git.predicate returns true only if the kind-specific regex fully
\* matches the name, the remote equals the configured one and the secondary
\* predicate (if any) returned a truthy value; from a passing ref, a name
\* that does not match, another remote or a falsy value of the secondary
\* predicate each make the result false.
C10_PredicateConjunction ==
    pRes = "True" =>
       /\ RegexCond(git, pRef)
       /\ RemoteCond(git, pRef)
       /\ SecCond(git, pSec)
       /\ \A n \in Names :
            ~RegexCond(git, [pRef EXCEPT !.name = n])
               => predicate(git, [pRef EXCEPT !.name = n], pSec) = "False"
       /\ \A r \in Remotes :
            r # git.remote
               => predicate(git, [pRef EXCEPT !.remote = r], pSec) = "False"
       /\ \A v \in SecResults \ {"True", "1", "raise"} :
            git.has_predicate => predicate(git, pRef, v) = "False"

\* A tag passes a provider with a secondary predicate, and each of the three
\* conditions can be made false from it.
C10_Witness ==
    /\ pRes = "True"
    /\ pRef.type_ = TAG
    /\ git.has_predicate
    /\ git.remote = "origin"
    /\ \E n \in Names : ~RegexCond(git, [pRef EXCEPT !.name = n])

\* The i-th listed ref passes the filter (a raising predicate counts as not
\* passing).
Passes(i) == predicate(git, rListing[i], rSec[i]) = "True"

\* C11: a secondary predicate that raises for a revision counts as false: no
\* error comes out of Git.predicate (no handle task ends with an exception)
\* or out of Git.retrieve, and retrieve returns the refs that pass.
C11_SecondaryFailureIsFalse ==
    /\ \A i \in RetrTasks : rTask[i] # "raised"
    /\ rPc # "raised"

\* C12: whatever the order the concurrent evaluations complete in, retrieve
\* returns each listed ref that passes the filter exactly once and no other
\* ref, in the order of the listing.
C12_RetrieveInListingOrder ==
    rPc = "returned" =>
        /\ \A i \in 1..Len(rListing) :
             Count(rListing[i], rResult) = (IF Passes(i) THEN 1 ELSE 0)
        /\ \A a \in 1..Len(rResult) : InSeq(rResult[a], rListing)
        /\ \A a, b \in 1..Len(rResult) :
             a < b => IndexOf(rResult[a], rListing) < IndexOf(rResult[b], rListing)

\* retrieve returned two refs whose evaluations completed in the reverse of
\* the listing order, and dropped a ref between them.
C12_Witness ==
    /\ rPc = "returned"
    /\ Len(rResult) >= 2
    /\ \E a, b \in 1..Len(rOrder) :
         /\ a < b /\ rOrder[a] > rOrder[b]
         /\ Passes(rOrder[a]) /\ Passes(rOrder[b])
    /\ \E i \in 1..Len(rListing) : ~Passes(i)

\* The line names a branch of a remote: refs/remotes/<remote>/<name>.
RemoteLine == Len(lnRef) >= 4 /\ lnRef[2] = "remotes"

\* The line names a local branch or a tag.
LocalLine == Len(lnRef) >= 3 /\ lnRef[2] \in {"heads", "tags"}

\* C13: refs/remotes/<remote>/<name> parses into a BRANCH with that remote
\* and name, refs/heads/<name> into a local BRANCH and refs/tags/<name> into
\* a TAG; a provider with remote R selects exactly the branches of R, one
\* without a remote exactly the local refs.
C13_RemoteRefsParsed ==
    parsePc # "start" =>
        /\ (RemoteLine =>
              parsed = <<GitRef(SubSeq(lnRef, 4, Len(lnRef)), BRANCH, lnDate, lnRef[3])>>)
        /\ (LocalLine /\ lnRef[2] = "heads" =>
              parsed = <<GitRef(SubSeq(lnRef, 3, Len(lnRef)), BRANCH, lnDate, NoRemote)>>)
        /\ (LocalLine /\ lnRef[2] = "tags" =>
              parsed = <<GitRef(SubSeq(lnRef, 3, Len(lnRef)), TAG, lnDate, NoRemote)>>)
        /\ (parsePc = "filtered" =>
              (parseSel = "True" <=>
                 \/ (git.remote = NoRemote /\ LocalLine)
                 \/ (git.remote # NoRemote /\ RemoteLine /\ lnRef[3] = git.remote)))

\* C14: every comparison operator orders revisions by date, so min and max
\* select by date, and no comparison raises (equal dates included).
C14_OrderedByDate ==
    cmpOp # "none" =>
        /\ cmpRes # "TypeError"
        /\ (cmpOp = "<" => cmpRes = Bool(cmpA.date < cmpB.date))
        /\ (cmpOp = ">" => cmpRes = Bool(cmpB.date < cmpA.date))
        /\ (cmpOp = "<=" => cmpRes = Bool(~(cmpB.date < cmpA.date)))
        /\ (cmpOp = ">=" => cmpRes = Bool(~(cmpA.date < cmpB.date)))
        /\ (cmpOp = "max" =>
              /\ cmpSel # <<>>
              /\ cmpSel[1].date >= cmpA.date /\ cmpSel[1].date >= cmpB.date)
        /\ (cmpOp = "min" =>
              /\ cmpSel # <<>>
              /\ cmpSel[1].date <= cmpA.date /\ cmpSel[1].date <= cmpB.date)

\* C15: for any input collection, a one-shot iterator included, refs_by_type
\* returns every input BRANCH exactly as often as it was passed in the first
\* list and every input TAG in the second, nothing else, in input order.
C15_PartitionByType ==
    gPc = "done" =>
        /\ gBranches = SelectSeq(gIn, LAMBDA r : r.type_ = BRANCH)
        /\ gTags = SelectSeq(gIn, LAMBDA r : r.type_ = TAG)
        /\ \A x \in GroupRefs :
             Count(x, gBranches) + Count(x, gTags) = Count(x, gIn)

\* The Encoder and the Decoder have std_hook registered, and the Decoder the
\* classes GitRef and GitRefType.
FullyRegistered ==
    /\ encHooks = {StdHookName}
    /\ decHooks = {StdHookName}
    /\ decTypes = {GitRefName, GitRefTypeName}

RECURSIVE HasTuple(_)
\* The value is or holds a plain tuple.
HasTuple(o) ==
    IF o.k = "tuple" THEN TRUE
    ELSE IF o.k \in {"list", "GitRef"} THEN \E i \in 1..Len(o.v) : HasTuple(o.v[i])
    ELSE IF o.k = "dict" THEN \E key \in DOMAIN o.v : HasTuple(o.v[key])
    ELSE FALSE

RECURSIVE HasReservedKey(_)
\* The value is or holds a plain dict with the key __jsonclass__ or
\* __jsonhook__.
HasReservedKey(o) ==
    IF o.k = "dict"
    THEN \/ DOMAIN o.v \cap {"__jsonclass__", "__jsonhook__"} # {}
         \/ \E key \in DOMAIN o.v : HasReservedKey(o.v[key])
    ELSE IF o.k \in {"list", "tuple", "GitRef"}
    THEN \E i \in 1..Len(o.v) : HasReservedKey(o.v[i])
    ELSE FALSE

RECURSIVE AsLists(_)
\* The value with every plain tuple replaced by the list of its items.
AsLists(o) ==
    IF o.k \in {"list", "tuple"} THEN PyList([i \in 1..Len(o.v) |-> AsLists(o.v[i])])
    ELSE IF o.k = "GitRef" THEN PyGitRef([i \in 1..Len(o.v) |-> AsLists(o.v[i])])
    ELSE IF o.k = "dict" THEN PyDict([key \in DOMAIN o.v |-> AsLists(o.v[key])])
    ELSE o

\* C16 as stated: with the same hooks and types registered, encode and decode
\* do not raise and decode(encode(x)) == x for every value built from
\* scalars, sequences, str-keyed dicts, revisions, GitRefType members and
\* datetimes.
C16_RoundTrip ==
    (FullyRegistered /\ jsonPc # "start") =>
        /\ jsonPc \in {"encoded", "decoded"}
        /\ (jsonPc = "decoded" => jsonY = jsonX)

\* C16, amended: with the same hooks and types registered, and for a value
\* that holds no dict with a reserved key, encode and decode do not raise
\* and decode(encode(x)) is x with every plain tuple replaced by a list:
\* equal to x when x holds no tuple; a revision comes back as a GitRef with
\* all its fields.
C16_RoundTripUpToTuples ==
    (FullyRegistered /\ jsonPc # "start" /\ ~HasReservedKey(jsonX)) =>
        /\ jsonPc \in {"encoded", "decoded"}
        /\ (jsonPc = "decoded" =>
              /\ jsonY = AsLists(jsonX)
              /\ (~HasTuple(jsonX) => jsonY = jsonX)
              /\ (jsonX.k = "GitRef" => jsonY.k = "GitRef" /\ jsonY.v[3] = jsonX.v[3]))

\* A dict holding a list of a revision made the round trip and came back
\* equal.
C16_Witness ==
    /\ FullyRegistered
    /\ jsonPc = "decoded"
    /\ jsonX.k = "dict"
    /\ "a" \in DOMAIN jsonX.v
    /\ jsonX.v["a"].k = "list"
    /\ Len(jsonX.v["a"].v) >= 1
    /\ jsonX.v["a"].v[1].k = "GitRef"
    /\ jsonY = jsonX

RECURSIVE Tolerant(_)
\* What a Decoder is to return for the encoded value o: the value itself
\* where its class or hook is registered, and where it is not, the mapping
\* that is on the wire, {"__jsonclass__": [class, fields]} or
\* {"__jsonhook__": [hook, class, fields]}, with the fields decoded.
Tolerant(o) ==
    IF o.k = "datetime"
    THEN (IF StdHookName \in decHooks THEN o
          ELSE PyDict("__jsonhook__" :>
                        PyList(<<PyStr(StdHookName), PyStr(".datetime"),
                                 PyStr(isoformat(o.v))>>)))
    ELSE IF o.k = "GitRefType"
    THEN (IF GitRefTypeName \in decTypes THEN o
          ELSE PyDict("__jsonclass__" :> PyList(<<PyStr(GitRefTypeName), PyStr(o.v)>>)))
    ELSE IF o.k = "GitRef"
    THEN LET fields == [i \in 1..Len(o.v) |-> Tolerant(o.v[i])]
         IN IF GitRefName \in decTypes THEN PyGitRef(fields)
            ELSE PyDict("__jsonclass__" :> PyList(<<PyStr(GitRefName), PyList(fields)>>))
    ELSE IF o.k \in {"list", "tuple"}
    THEN PyList([i \in 1..Len(o.v) |-> Tolerant(o.v[i])])
    ELSE IF o.k = "dict" THEN PyDict([key \in DOMAIN o.v |-> Tolerant(o.v[key])])
    ELSE o

\* The class or hook of the encoded value is not registered with the Decoder.
Unregistered(o) ==
    \/ o.k = "datetime" /\ StdHookName \notin decHooks
    \/ o.k = "GitRefType" /\ GitRefTypeName \notin decTypes
    \/ o.k = "GitRef" /\ GitRefName \notin decTypes

\* C17: decoding a payload whose class or hook identifier is not registered
\* raises nothing and yields the wire mapping as it is, while the rest of
\* the document is decoded as usual; a payload that holds no registered one
\* serialises back to the very document received.
C17_UnregisteredIsRaw ==
    (jsonPc \in {"decoded", "decode_raised"} /\ ~HasReservedKey(jsonX)) =>
        /\ jsonPc = "decoded"
        /\ jsonY = Tolerant(jsonX)
        /\ (Unregistered(jsonX) =>
              /\ jsonY.k = "dict"
              /\ DOMAIN jsonY.v = DOMAIN wire.v
              /\ (decTypes = {} /\ decHooks = {} => dumps(jsonY) = wire))

\* A list of a revision was decoded by a Decoder that knows GitRefType and
\* std_hook but not GitRef: the revision stays a tagged mapping whose fields
\* hold the decoded member and datetime.
C17_Witness ==
    /\ jsonPc = "decoded"
    /\ decTypes = {GitRefTypeName}
    /\ decHooks = {StdHookName}
    /\ jsonX.k = "list"
    /\ Len(jsonX.v) = 2
    /\ jsonX.v[1].k = "GitRef"
    /\ jsonX.v[2].k = "datetime"
    /\ jsonY.v[1].k = "dict"
    /\ DOMAIN jsonY.v[1].v = {"__jsonclass__"}
    /\ jsonY.v[1].v["__jsonclass__"].v[2].v[2].k = "GitRefType"
    /\ jsonY.v[2] = jsonX.v[2]

\* The commands build is configured with, in the order it is to run them.
Sequence ==
    (IF bPreCmd THEN <<"pre_cmd">> ELSE <<>>) \o <<"cmd">>
    \o (IF bPostCmd THEN <<"post_cmd">> ELSE <<>>)

\* C18: build runs pre hook, build command and post hook in that order and
\* stops at the first that exits nonzero, raising BuildError: nothing runs
\* after a nonzero exit, and build returns only when every command of the
\* sequence ran and exited with 0.
C18_StopAtFirstFailure ==
    /\ Len(bRan) <= Len(Sequence)
    /\ \A i \in 1..Len(bRan) : bRan[i].cmd = Sequence[i]
    /\ \A i \in 1..(Len(bRan) - 1) : bRan[i].rc = 0
    /\ (bRan # <<>> /\ bRan[Len(bRan)].rc # 0 => bPc = "raised")
    /\ (bPc = "raised" => bRan # <<>> /\ bRan[Len(bRan)].rc # 0)
    /\ (bPc = "returned" =>
          /\ Len(bRan) = Len(Sequence)
          /\ \A i \in 1..Len(bRan) : bRan[i].rc = 0)

\* With both hooks configured the build command was ended by a signal: build
\* raised and the post hook did not run.
C18_Witness ==
    /\ bPreCmd /\ bPostCmd
    /\ bPc = "raised"
    /\ Len(bRan) = 2
    /\ bRan[2].rc < 0
    /\ bRc["post_cmd"] = 0

\* C19: the cause of the BuildError names the command that failed, with that
\* command's exit code and output, also when it is one of the hooks.
C19_CauseIsFailingCommand ==
    bPc = "raised" =>
        /\ bCause # <<>>
        /\ bCause[1].cmd = bRan[Len(bRan)].cmd
        /\ bCause[1].returncode = bRan[Len(bRan)].rc
        /\ bCause[1].output = bRan[Len(bRan)].out

\* The run in local mode has ended: run returned ("done") or raised.
LocalEnded == runPc \in {"done", "closed"}

\* The steps build_local has performed.
LocalLog == IF evlog = <<>> THEN <<>> ELSE evlog[1]

\* In local mode nothing is discovered and nothing is checked out.
NoDiscovery == gitRc = -1 /\ ~InSeq("checkout", LocalLog)

\* Without mock data build_local raises ValueError and builds nothing.
NoMockNoBuild ==
    (mock = <<>> /\ runPc # "start") =>
        /\ runPc = "closed" /\ runExc = "ValueError"
        /\ LocalLog = <<>> /\ outdirs = {} /\ rootRuns = 0

C21_StaticCopied ==
    /\ rootPc # "raised"
    /\ (rootPc \in {"templates", "done"} =>
          \A e \in stTree : e.kind = "file" => Entry(e.path, "file") \in outTree)
    /\ \A i, j \in 1..Len(rootLog) :
          /\ (rootLog[i] = "manifest" /\ rootLog[j] = "copy" => i < j)
          /\ (rootLog[i] = "copy" /\ rootLog[j] = "render" => i < j)

\* C22: the constructor raises ValueError exactly when a mapping is passed
\* for builder or env and there is no selector; with a selector a mapping is
\* accepted and the key the selector returns for the revision chooses the
\* builder and the environment factory.
C22_SelectorRequired ==
    /\ (dPc # "new" =>
          (dPc = "ctor_raised" <=>
             (is_mapping(dBuilder) \/ is_mapping(dEnv)) /\ dSelector = <<>>))
    /\ dPc # "raised"
    /\ (dPc \in {"builder", "env"} /\ is_mapping(dBuilder) =>
          dUsed.builder = <<"builder", dSelector[1].key[dRev]>>)
    /\ (dPc = "env" /\ is_mapping(dEnv) =>
          dUsed.env = <<"env", dSelector[1].key[dRev]>>)

\* The Python values that count as false.
Falsy == {"False", "None", "0"}

\* C24: async_all returns True iff every awaitable's result is truthy (True
\* for no awaitables), and it goes on waiting only as long as every result
\* read so far was truthy, whatever the order of completion.
C24_AsyncAll ==
    /\ (allPc = "returned" =>
          (allRet = TRUE <=> \A i \in DOMAIN aws : aws[i] \in PyResults \ Falsy))
    /\ (allPc = "returned" /\ allRet = TRUE => seen = DOMAIN aws)
    /\ (allPc \in {"wait", "iterate"} => \A i \in seen : aws[i] \notin Falsy)

\* async_all has returned False on a falsy result while another task,
\* whose result was never read, was still pending when it was found.
C24_Witness ==
    /\ allPc = "returned"
    /\ allRet = FALSE
    /\ Len(aws) >= 2
    /\ \E i \in DOMAIN aws : i \notin seen /\ taskState[i] = "cancelled"
    /\ \E i \in seen : aws[i] \in {"None", "0"}

\* C26: when async_all has returned False, no task is pending or running:
\* every task that was unfinished has been cancelled and has ended.
C26_NoneLeftRunning ==
    allPc = "returned" /\ allRet = FALSE =>
        \A i \in DOMAIN aws : taskState[i] \in {"done", "cancelled"}

\* async_all has returned False after cancelling two unfinished tasks.
C26_Witness ==
    /\ allPc = "returned"
    /\ allRet = FALSE
    /\ Cardinality({i \in DOMAIN aws : taskState[i] = "cancelled"}) >= 2

\* C23: two Poetry environments of one project path that are entered at
\* the same time have distinct venvs, however their __aenter__ steps
\* interleave, and a command run through an environment uses its own venv.
C23_DistinctVenvs ==
    /\ \A a, b \in DOMAIN pPc :
          a # b /\ pPc[a] = "entered" /\ pPc[b] = "entered" => pVenv[a] # pVenv[b]
    /\ \A a \in DOMAIN pPc :
          pRan[a] # NoVenv => pRan[a] = poetry_env_info(pEnvPath[a])

\* The steps of build_revision in the order of the code, and the events of
\* leaving the exit stack.
StepOrder == <<"tmp_create", "checkout", "env_enter", "init_data", "build">>
ExitEvents == {"env_exit", "tmp_destroy"}
StepsOf(t) == SelectSeq(evlog[t], LAMBDA e : e \notin ExitEvents)

\* C25: the steps of one task occur in the order workspace, checkout,
\* environment, metadata, build, each after the previous one has ended; a
\* failed step is the last step of its task; success is recorded only after
\* all five steps, and a build writes to output_dir/name(rev).
C25_StepOrder ==
    \A t \in Tasks :
        LET s == StepsOf(t) IN
        /\ Len(s) <= Len(StepOrder)
        /\ \A i \in 1..Len(s) :
              \/ s[i] = StepOrder[i]
              \/ i = 3 /\ i = Len(s) /\ s[i] = "env_enter_raised" /\ exc[t] # "none"
        /\ \A i, j \in 1..Len(evlog[t]) :
              evlog[t][i] \in ExitEvents /\ i < j => evlog[t][j] \in ExitEvents
        /\ (\E i \in 1..Len(evlog[t]) : evlog[t][i] \in ExitEvents) => pc[t] \in Terminal
        /\ (pc[t] \in {"tmp", "copied", "entered", "data"} =>
              s = SubSeq(StepOrder, 1, IndexOf(pc[t], <<"tmp", "copied", "entered", "data">>)))
        /\ (pc[t] = "succeeded" => s = StepOrder)
        /\ (pc[t] \in {"failed", "raised"} => exc[t] # "none")
        /\ (InSeq(targets[t], builds) => pc[t] = "succeeded")
        /\ (InSeq("build", s) => name(targets[t]) \in outdirs)

\* One task has failed when entering its environment and has done no later
\* step, while another task is between its metadata and its build.
C25_Witness ==
    \E t, u \in Tasks :
        /\ t # u
        /\ pc[t] = "failed"
        /\ evlog[t] = <<"tmp_create", "checkout", "env_enter_raised", "tmp_destroy">>
        /\ pc[u] = "data"
        /\ StepsOf(u) = SubSeq(StepOrder, 1, 4)

\* C27: without a data factory the bundle handed to the builder for the
\* revision r of a task is {revisions: the targets in discovery order,
\* current: r}, the same revisions for every task whatever its siblings have
\* done, and the targets stay what discovery returned.
C27_DefaultBundle ==
    /\ (runPc \notin {"start"} /\ root # "missing" =>
          targets = retrieve(git, get_all_refs(root, store),
                             [i \in 1..Len(get_all_refs(root, store)) |-> "None"]))
    /\ (~dataFactory =>
          /\ \A t \in DOMAIN bundle :
                bundle[t] = [factory |-> "default", revisions |-> targets,
                             current |-> targets[t]]
          /\ \A t \in Tasks : InSeq("build", evlog[t]) => t \in DOMAIN bundle)

\* Two tasks got their bundle, the later one after a sibling had already
\* succeeded and another had failed.
C27_Witness ==
    /\ ~dataFactory
    /\ \E t, u, w \in DOMAIN bundle :
          /\ pc[t] = "succeeded"
          /\ pc[u] = "failed"
          /\ pc[w] = "data"
          /\ Len(finished) >= 2
          /\ bundle[w].revisions = targets
          /\ Len(targets) >= 3

\* C28: no two tasks of a run are handed the same output directory: for
\* two distinct revisions of the targets output_dir/name_for_rev(rev)
\* differs.
C28_DistinctOutputDirs ==
    \A t, u \in DOMAIN nmDirs :
        t # u /\ nmTargets[t] # nmTargets[u] => nmDirs[t] # nmDirs[u]

\* The manifest of a finished local run lists no revision twice and the
\* current revision once.
LocalManifestUnique ==
    mock # <<>> /\ runPc = "done" /\ manifest.written =>
        /\ \A i, j \in 1..Len(manifest.revs) :
              manifest.revs[i] = manifest.revs[j] => i = j
        /\ Count(mock[1].current, manifest.revs) = 1

\* C29: in local mode the builds written to versions.json hold no revision
\* more than once, the mock `current` revision exactly once whether or not
\* it was among the mock revisions, and the mock revisions list of the
\* caller is not modified by the run.
C29_LocalBuildsUnique == []LocalManifestUnique /\ [][mock' = mock]_vars

\* C30: the pretend version in the environment a task builds with is the
\* version determined for that task's own revision or the value the user
\* supplied, never the version of another task, in every order of the tasks
\* and also for a factory created with a non-empty `env` mapping.
C30_OwnVersion ==
    \A t \in DOMAIN scmPc :
        scmPc[t] = "built" =>
            \/ scmSeen[t] \in {ScmVersions[t], "unset"}
            \/ scmGiven /\ scmSeen[t] = "9.9"

====
